---- MODULE Spec2Model ----
(***************************************************************************)
(* A model of the NES 6502 CPU core: the CPU struct, its memory port, the  *)
(* status register, the addressing-mode resolver, the opcode table, the    *)
(* instruction routines and the fetch-decode-execute driver.               *)
(*                                                                         *)
(* Every routine of the source is an operator from a CPU record to a CPU   *)
(* record.  The record has the struct's fields plus `fault`, which is      *)
(* "none" while the call is running normally and names the Rust panic once *)
(* the call has aborted ("index": slice index out of bounds, "illegal":    *)
(* the driver's illegal-instruction panic, "unreachable": unreachable!()). *)
(***************************************************************************)
EXTENDS Integers, Sequences, FiniteSets, TLC

VARIABLES
    cpu,    \* the CPU struct (registers, status, program counter, memory)
    phase,  \* "host": outside run(); "run": inside run()'s loop; "aborted": panicked
    prev,   \* the CPU struct as it was before the last operation
    last,   \* the last operation: its name, arguments and outcome
    fuel,   \* operations still allowed by the bounds of the model
    frame,  \* the most recent JSR that no RTS has followed yet
    prior,  \* the operation before the last, and the CPU struct before it
    bus     \* the Bus struct (the 2 KiB of CPU RAM behind the mirrors)

vars == <<cpu, phase, prev, last, fuel, frame, prior, bus>>

----------------------------------------------------------------------------
(* Widths: u8 and u16 arithmetic.                                          *)

U8 == 256
U16 == 65536

Byte == 0 .. (U8 - 1)

wrapping_add8(a, b) == (a + b) % U8
wrapping_sub8(a, b) == (a - b + U8) % U8
wrapping_add16(a, b) == (a + b) % U16
wrapping_sub16(a, b) == (a - b + U16) % U16

RECURSIVE BitAndN(_, _, _)
BitAndN(a, b, n) ==
    IF n = 0 THEN 0
    ELSE ((a % 2) * (b % 2)) + 2 * BitAndN(a \div 2, b \div 2, n - 1)

RECURSIVE BitOrN(_, _, _)
BitOrN(a, b, n) ==
    IF n = 0 THEN 0
    ELSE (IF (a % 2) + (b % 2) > 0 THEN 1 ELSE 0) + 2 * BitOrN(a \div 2, b \div 2, n - 1)

RECURSIVE BitXorN(_, _, _)
BitXorN(a, b, n) ==
    IF n = 0 THEN 0
    ELSE (((a % 2) + (b % 2)) % 2) + 2 * BitXorN(a \div 2, b \div 2, n - 1)

\* u8 operators: &, |, ^, !, <<, >>
BitAnd(a, b) == BitAndN(a, b, 8)
BitOr(a, b) == BitOrN(a, b, 8)
BitXor(a, b) == BitXorN(a, b, 8)
BitNot(a) == (U8 - 1) - a
Shl8(a, k) == (a * (2 ^ k)) % U8
Shr8(a, k) == a \div (2 ^ k)

\* `x as u16`: zero extension of a byte to 16 bits
u8_as_u16(b) == b

\* `x as i8 as u16`: sign extension of a byte to 16 bits
i8_as_u16(b) == IF b >= 128 THEN b + (U16 - U8) ELSE b

----------------------------------------------------------------------------
(* cpu/mod.rs: constants and the CPU struct.                               *)

STACK == 256
STACK_RESET == 253
RESET_STATUS == 36
RESET_VECTOR == 65532
LOAD_BASE == 32768
TEST_LOAD_BASE == 1536

\* The length of the `memory` array, [u8; 0xFFFF].
MEMORY_LEN == 65535

\* An index the array accepts; any other index panics.
InBounds(addr) == addr >= 0 /\ addr < MEMORY_LEN

\* The array is kept as the map of its non-zero cells: a cell that is not in
\* the map holds 0.  This form is canonical, so two arrays are equal exactly
\* when their maps are.
ZeroMemory == [a \in {} |-> 0]

Cell(memory, addr) == IF addr \in DOMAIN memory THEN memory[addr] ELSE 0

Store(memory, addr, data) ==
    IF data = 0
    THEN [a \in (DOMAIN memory) \ {addr} |-> memory[a]]
    ELSE [a \in (DOMAIN memory) \cup {addr} |-> IF a = addr THEN data ELSE memory[a]]

Panic(c, why) == [c EXCEPT !.fault = why]

----------------------------------------------------------------------------
(* mem.rs: the memory port of the CPU.                                     *)

\* mem_read on an index the array accepts.
mem_read(c, addr) == Cell(c.memory, addr)

\* mem_write: the call panics on an index the array does not accept.
mem_write(c, addr, data) ==
    IF InBounds(addr)
    THEN [c EXCEPT !.memory = Store(@, addr, data)]
    ELSE Panic(c, "index")

\* mem_read as a call: [fault, value].
mem_read_call(c, addr) ==
    IF InBounds(addr)
    THEN [fault |-> "none", value |-> mem_read(c, addr)]
    ELSE [fault |-> "index", value |-> 0]

mem_read_u16(c, pos) ==
    LET lo == mem_read_call(c, pos)
        hi == mem_read_call(c, wrapping_add16(pos, 1))
    IN  IF lo.fault # "none" THEN [fault |-> lo.fault, value |-> 0]
        ELSE IF hi.fault # "none" THEN [fault |-> hi.fault, value |-> 0]
        ELSE [fault |-> "none", value |-> (hi.value * U8) + lo.value]

mem_write_u16(c, pos, data) ==
    LET hi == data \div U8
        lo == data % U8
        c1 == mem_write(c, pos, lo)
    IN  IF c1.fault # "none" THEN c1
        ELSE mem_write(c1, wrapping_add16(pos, 1), hi)

----------------------------------------------------------------------------
(* cpu/processor_status.rs: the status byte.                               *)

CARRY_BIT == 1
ZERO_BIT == 2
INTERRUPT_DISABLE_BIT == 4
DECIMAL_BIT == 8
OVERFLOW_BIT == 64
NEGATIVE_BIT == 128

is_status_flag_set(c, flag) ==
    CASE flag = "Carry" -> BitAnd(c.status, CARRY_BIT) = 1
      [] flag = "Zero" -> BitAnd(c.status, ZERO_BIT) = 2
      [] flag = "InterruptDisable" -> BitAnd(c.status, INTERRUPT_DISABLE_BIT) = 4
      [] flag = "Decimal" -> BitAnd(c.status, DECIMAL_BIT) = 8
      [] flag = "Overflow" -> BitAnd(c.status, OVERFLOW_BIT) = 64
      [] flag = "Negative" -> BitAnd(c.status, NEGATIVE_BIT) = 128

\* The variants of the enum ProcessorStatus and the bit each one names.
ProcessorStatus ==
    {"Carry", "Zero", "InterruptDisable", "Decimal", "BFlag", "Unused",
     "Overflow", "Negative"}

\* is_status_flag_set as a call: [fault, value].  The arms of BFlag and
\* Unused are unreachable!().
is_status_flag_set_call(c, flag) ==
    IF flag \in {"BFlag", "Unused"}
    THEN [fault |-> "unreachable", value |-> FALSE]
    ELSE [fault |-> "none", value |-> is_status_flag_set(c, flag)]

update_carry_flag(c, condition) ==
    [c EXCEPT !.status = IF condition THEN BitOr(@, CARRY_BIT)
                         ELSE BitAnd(@, BitNot(CARRY_BIT))]

update_zero_flag(c, condition) ==
    [c EXCEPT !.status = IF condition THEN BitOr(@, ZERO_BIT)
                         ELSE BitAnd(@, BitNot(ZERO_BIT))]

update_interrupt_flag(c, condition) ==
    [c EXCEPT !.status = IF condition THEN BitOr(@, INTERRUPT_DISABLE_BIT)
                         ELSE BitAnd(@, BitNot(INTERRUPT_DISABLE_BIT))]

update_decimal_flag(c, condition) ==
    [c EXCEPT !.status = IF condition THEN BitOr(@, DECIMAL_BIT)
                         ELSE BitAnd(@, BitNot(DECIMAL_BIT))]

update_overflow_flag(c, condition) ==
    [c EXCEPT !.status = IF condition THEN BitOr(@, OVERFLOW_BIT)
                         ELSE BitAnd(@, BitNot(OVERFLOW_BIT))]

update_negative_flag(c, condition) ==
    [c EXCEPT !.status = IF condition THEN BitOr(@, NEGATIVE_BIT)
                         ELSE BitAnd(@, BitNot(NEGATIVE_BIT))]

----------------------------------------------------------------------------
(* cpu/addressing_mode.rs: the addressing-mode resolver.  The result is    *)
(* [fault, addr]; the program counter points at the first operand byte.    *)

Resolved(addr) == [fault |-> "none", addr |-> addr]
Unresolved(why) == [fault |-> why, addr |-> 0]

\* A word read by mem_read_u16, as the resolver's result.
as_address(t) == IF t.fault # "none" THEN Unresolved(t.fault) ELSE Resolved(t.value)

\* A pointer fetch whose high byte is the byte after ptr, page zero or not.
zero_page_pointer_without_wrap(c, ptr) ==
    (mem_read(c, ptr + 1) * U8) + mem_read(c, ptr)

\* The zero-page pointer fetch of IndirectX and IndirectY: the low byte at
\* ptr, the high byte at ptr.wrapping_add(1), both in page zero.
zero_page_pointer(c, ptr) ==
    (mem_read(c, wrapping_add8(ptr, 1)) * U8) + mem_read(c, ptr)

\* An indexed zero-page address that is carried into page one.
zero_page_indexed_without_wrap(pos, index) == pos + index

\* pos.wrapping_add(self.register_x) as u16: the sum is made on u8.
zero_page_indexed(pos, index) == wrapping_add8(pos, index)

\* The arms of the match, given the byte b and the word w read at the
\* program counter (each read is made only by the arms that use it).
resolve(c, mode, b, w) ==
    CASE mode = "Implicit" -> Unresolved("unreachable")
      [] mode = "Accumulator" -> Unresolved("unreachable")
      [] mode = "Immediate" -> Resolved(c.program_counter)
      [] mode \in {"ZeroPage", "ZeroPageX", "ZeroPageY", "Relative", "AbsoluteX",
                   "AbsoluteY", "IndirectX", "IndirectY"} /\ b.fault # "none" ->
            Unresolved(b.fault)
      [] mode = "Indirect" /\ w.fault # "none" -> Unresolved(w.fault)
      [] mode = "ZeroPage" -> Resolved(b.value)
      [] mode = "ZeroPageX" -> Resolved(zero_page_indexed(b.value, c.register_x))
      [] mode = "ZeroPageY" -> Resolved(zero_page_indexed(b.value, c.register_y))
      [] mode = "Relative" ->
            Resolved(wrapping_add16(c.program_counter, i8_as_u16(b.value)))
      [] mode = "Absolute" -> as_address(w)
      [] mode = "AbsoluteX" -> Resolved(wrapping_add16(b.value, c.register_x))
      [] mode = "AbsoluteY" -> Resolved(wrapping_add16(b.value, c.register_y))
      [] mode = "Indirect" -> as_address(mem_read_u16(c, w.value))
      [] mode = "IndirectX" ->
            Resolved(zero_page_pointer(c, wrapping_add8(b.value, c.register_x)))
      [] mode = "IndirectY" ->
            Resolved(wrapping_add16(zero_page_pointer(c, b.value), c.register_y))

get_operand_address(c, mode) ==
    resolve(c, mode, mem_read_call(c, c.program_counter),
            mem_read_u16(c, c.program_counter))

\* `let value = self.mem_read(addr)` after the resolver: [fault, addr, value].
read_at(c, r) ==
    IF r.fault # "none" THEN [fault |-> r.fault, addr |-> 0, value |-> 0]
    ELSE [fault |-> mem_read_call(c, r.addr).fault, addr |-> r.addr,
          value |-> mem_read_call(c, r.addr).value]

\* The idiom `let addr = self.get_operand_address(mode);
\*            let value = self.mem_read(addr);`
operand(c, mode) == read_at(c, get_operand_address(c, mode))

----------------------------------------------------------------------------
(* opcodes.rs: the opcode table.                                           *)

OpCode_new(code, mnemonic, len, cycles, mode) ==
    [code |-> code, mnemonic |-> mnemonic, len |-> len, cycles |-> cycles, mode |-> mode]

OpCodes ==
    { OpCode_new(105, "ADC", 2, 2, "Immediate")   \* 0x69
    , OpCode_new(101, "ADC", 2, 3, "ZeroPage")   \* 0x65
    , OpCode_new(117, "ADC", 2, 4, "ZeroPageX")   \* 0x75
    , OpCode_new(109, "ADC", 3, 4, "Absolute")   \* 0x6D
    , OpCode_new(125, "ADC", 3, 4, "AbsoluteX")   \* 0x7D
    , OpCode_new(121, "ADC", 3, 4, "AbsoluteY")   \* 0x79
    , OpCode_new(97, "ADC", 2, 6, "IndirectX")   \* 0x61
    , OpCode_new(113, "ADC", 2, 5, "IndirectY")   \* 0x71
    , OpCode_new(41, "AND", 2, 2, "Immediate")   \* 0x29
    , OpCode_new(37, "AND", 2, 3, "ZeroPage")   \* 0x25
    , OpCode_new(53, "AND", 2, 4, "ZeroPageX")   \* 0x35
    , OpCode_new(45, "AND", 3, 4, "Absolute")   \* 0x2D
    , OpCode_new(61, "AND", 3, 4, "AbsoluteX")   \* 0x3D
    , OpCode_new(57, "AND", 3, 4, "AbsoluteY")   \* 0x39
    , OpCode_new(33, "AND", 2, 6, "IndirectX")   \* 0x21
    , OpCode_new(49, "AND", 2, 5, "IndirectY")   \* 0x31
    , OpCode_new(10, "ASL", 1, 2, "Accumulator")   \* 0x0A
    , OpCode_new(6, "ASL", 2, 5, "ZeroPage")   \* 0x06
    , OpCode_new(22, "ASL", 2, 6, "ZeroPageX")   \* 0x16
    , OpCode_new(14, "ASL", 3, 6, "Absolute")   \* 0x0E
    , OpCode_new(30, "ASL", 3, 7, "AbsoluteX")   \* 0x1E
    , OpCode_new(144, "BCC", 2, 2, "Relative")   \* 0x90
    , OpCode_new(176, "BCS", 2, 2, "Relative")   \* 0xB0
    , OpCode_new(240, "BEQ", 2, 2, "Relative")   \* 0xF0
    , OpCode_new(36, "BIT", 2, 3, "ZeroPage")   \* 0x24
    , OpCode_new(44, "BIT", 3, 4, "Absolute")   \* 0x2C
    , OpCode_new(48, "BMI", 2, 2, "Relative")   \* 0x30
    , OpCode_new(208, "BNE", 2, 2, "Relative")   \* 0xD0
    , OpCode_new(16, "BPL", 2, 2, "Relative")   \* 0x10
    , OpCode_new(0, "BRK", 1, 7, "Implicit")   \* 0x00
    , OpCode_new(80, "BVC", 2, 2, "Relative")   \* 0x50
    , OpCode_new(112, "BVS", 2, 2, "Relative")   \* 0x70
    , OpCode_new(24, "CLC", 1, 2, "Implicit")   \* 0x18
    , OpCode_new(216, "CLD", 1, 2, "Implicit")   \* 0xD8
    , OpCode_new(88, "CLI", 1, 2, "Implicit")   \* 0x58
    , OpCode_new(184, "CLV", 1, 2, "Implicit")   \* 0xB8
    , OpCode_new(201, "CMP", 2, 2, "Immediate")   \* 0xC9
    , OpCode_new(197, "CMP", 2, 3, "ZeroPage")   \* 0xC5
    , OpCode_new(213, "CMP", 2, 4, "ZeroPageX")   \* 0xD5
    , OpCode_new(205, "CMP", 3, 4, "Absolute")   \* 0xCD
    , OpCode_new(221, "CMP", 3, 4, "AbsoluteX")   \* 0xDD
    , OpCode_new(217, "CMP", 3, 4, "AbsoluteY")   \* 0xD9
    , OpCode_new(193, "CMP", 2, 6, "IndirectX")   \* 0xC1
    , OpCode_new(209, "CMP", 2, 5, "IndirectY")   \* 0xD1
    , OpCode_new(224, "CPX", 2, 2, "Immediate")   \* 0xE0
    , OpCode_new(228, "CPX", 2, 3, "ZeroPage")   \* 0xE4
    , OpCode_new(236, "CPX", 3, 4, "Absolute")   \* 0xEC
    , OpCode_new(192, "CPY", 2, 2, "Immediate")   \* 0xC0
    , OpCode_new(196, "CPY", 2, 3, "ZeroPage")   \* 0xC4
    , OpCode_new(204, "CPY", 3, 4, "Absolute")   \* 0xCC
    , OpCode_new(198, "DEC", 2, 5, "ZeroPage")   \* 0xC6
    , OpCode_new(214, "DEC", 2, 6, "ZeroPageX")   \* 0xD6
    , OpCode_new(206, "DEC", 3, 6, "Absolute")   \* 0xCE
    , OpCode_new(222, "DEC", 3, 7, "AbsoluteX")   \* 0xDE
    , OpCode_new(202, "DEX", 1, 2, "Implicit")   \* 0xCA
    , OpCode_new(136, "DEY", 1, 2, "Implicit")   \* 0x88
    , OpCode_new(73, "EOR", 2, 2, "Immediate")   \* 0x49
    , OpCode_new(69, "EOR", 2, 3, "ZeroPage")   \* 0x45
    , OpCode_new(85, "EOR", 2, 4, "ZeroPageX")   \* 0x55
    , OpCode_new(77, "EOR", 3, 4, "Absolute")   \* 0x4D
    , OpCode_new(93, "EOR", 3, 4, "AbsoluteX")   \* 0x5D
    , OpCode_new(89, "EOR", 3, 4, "AbsoluteY")   \* 0x59
    , OpCode_new(65, "EOR", 2, 6, "IndirectX")   \* 0x41
    , OpCode_new(81, "EOR", 2, 5, "IndirectY")   \* 0x51
    , OpCode_new(230, "INC", 2, 5, "ZeroPage")   \* 0xE6
    , OpCode_new(246, "INC", 2, 6, "ZeroPageX")   \* 0xF6
    , OpCode_new(238, "INC", 3, 6, "Absolute")   \* 0xEE
    , OpCode_new(254, "INC", 3, 7, "AbsoluteX")   \* 0xFE
    , OpCode_new(232, "INX", 1, 2, "Implicit")   \* 0xE8
    , OpCode_new(200, "INY", 1, 2, "Implicit")   \* 0xC8
    , OpCode_new(76, "JMP", 3, 3, "Absolute")   \* 0x4C
    , OpCode_new(108, "JMP", 3, 5, "Indirect")   \* 0x6C
    , OpCode_new(32, "JSR", 3, 6, "Absolute")   \* 0x20
    , OpCode_new(169, "LDA", 2, 2, "Immediate")   \* 0xA9
    , OpCode_new(165, "LDA", 2, 3, "ZeroPage")   \* 0xA5
    , OpCode_new(181, "LDA", 2, 4, "ZeroPageX")   \* 0xB5
    , OpCode_new(173, "LDA", 3, 4, "Absolute")   \* 0xAD
    , OpCode_new(189, "LDA", 3, 4, "AbsoluteX")   \* 0xBD
    , OpCode_new(185, "LDA", 3, 4, "AbsoluteY")   \* 0xB9
    , OpCode_new(161, "LDA", 2, 6, "IndirectX")   \* 0xA1
    , OpCode_new(177, "LDA", 2, 5, "IndirectY")   \* 0xB1
    , OpCode_new(162, "LDX", 2, 2, "Immediate")   \* 0xA2
    , OpCode_new(166, "LDX", 2, 3, "ZeroPage")   \* 0xA6
    , OpCode_new(182, "LDX", 2, 4, "ZeroPageY")   \* 0xB6
    , OpCode_new(174, "LDX", 3, 4, "Absolute")   \* 0xAE
    , OpCode_new(190, "LDX", 3, 4, "AbsoluteY")   \* 0xBE
    , OpCode_new(160, "LDY", 2, 2, "Immediate")   \* 0xA0
    , OpCode_new(164, "LDY", 2, 3, "ZeroPage")   \* 0xA4
    , OpCode_new(180, "LDY", 2, 4, "ZeroPageX")   \* 0xB4
    , OpCode_new(172, "LDY", 3, 4, "Absolute")   \* 0xAC
    , OpCode_new(188, "LDY", 3, 4, "AbsoluteX")   \* 0xBC
    , OpCode_new(74, "LSR", 1, 2, "Accumulator")   \* 0x4A
    , OpCode_new(70, "LSR", 2, 5, "ZeroPage")   \* 0x46
    , OpCode_new(86, "LSR", 2, 6, "ZeroPageX")   \* 0x56
    , OpCode_new(78, "LSR", 3, 6, "Absolute")   \* 0x4E
    , OpCode_new(94, "LSR", 3, 7, "AbsoluteX")   \* 0x5E
    , OpCode_new(234, "NOP", 1, 2, "Implicit")   \* 0xEA
    , OpCode_new(9, "ORA", 2, 2, "Immediate")   \* 0x09
    , OpCode_new(5, "ORA", 2, 3, "ZeroPage")   \* 0x05
    , OpCode_new(21, "ORA", 2, 4, "ZeroPageX")   \* 0x15
    , OpCode_new(13, "ORA", 3, 4, "Absolute")   \* 0x0D
    , OpCode_new(29, "ORA", 3, 4, "AbsoluteX")   \* 0x1D
    , OpCode_new(25, "ORA", 3, 4, "AbsoluteY")   \* 0x19
    , OpCode_new(1, "ORA", 2, 6, "IndirectX")   \* 0x01
    , OpCode_new(17, "ORA", 2, 5, "IndirectY")   \* 0x11
    , OpCode_new(72, "PHA", 1, 3, "Implicit")   \* 0x48
    , OpCode_new(8, "PHP", 1, 3, "Implicit")   \* 0x08
    , OpCode_new(104, "PLA", 1, 4, "Implicit")   \* 0x68
    , OpCode_new(40, "PLP", 1, 4, "Implicit")   \* 0x28
    , OpCode_new(42, "ROL", 1, 2, "Accumulator")   \* 0x2A
    , OpCode_new(38, "ROL", 2, 5, "ZeroPage")   \* 0x26
    , OpCode_new(54, "ROL", 2, 6, "ZeroPageX")   \* 0x36
    , OpCode_new(46, "ROL", 3, 6, "Absolute")   \* 0x2E
    , OpCode_new(62, "ROL", 3, 7, "AbsoluteX")   \* 0x3E
    , OpCode_new(106, "ROR", 1, 2, "Accumulator")   \* 0x6A
    , OpCode_new(102, "ROR", 2, 5, "ZeroPage")   \* 0x66
    , OpCode_new(118, "ROR", 2, 6, "ZeroPageX")   \* 0x76
    , OpCode_new(110, "ROR", 3, 6, "Absolute")   \* 0x6E
    , OpCode_new(126, "ROR", 3, 7, "AbsoluteX")   \* 0x7E
    , OpCode_new(64, "RTI", 1, 6, "Implicit")   \* 0x40
    , OpCode_new(96, "RTS", 1, 6, "Implicit")   \* 0x60
    , OpCode_new(233, "SBC", 2, 2, "Immediate")   \* 0xE9
    , OpCode_new(229, "SBC", 2, 3, "ZeroPage")   \* 0xE5
    , OpCode_new(245, "SBC", 2, 4, "ZeroPageX")   \* 0xF5
    , OpCode_new(237, "SBC", 3, 4, "Absolute")   \* 0xED
    , OpCode_new(253, "SBC", 3, 4, "AbsoluteX")   \* 0xFD
    , OpCode_new(249, "SBC", 3, 4, "AbsoluteY")   \* 0xF9
    , OpCode_new(225, "SBC", 2, 6, "IndirectX")   \* 0xE1
    , OpCode_new(241, "SBC", 2, 5, "IndirectY")   \* 0xF1
    , OpCode_new(56, "SEC", 1, 2, "Implicit")   \* 0x38
    , OpCode_new(248, "SED", 1, 2, "Implicit")   \* 0xF8
    , OpCode_new(120, "SEI", 1, 2, "Implicit")   \* 0x78
    , OpCode_new(133, "STA", 2, 3, "ZeroPage")   \* 0x85
    , OpCode_new(149, "STA", 2, 4, "ZeroPageX")   \* 0x95
    , OpCode_new(141, "STA", 3, 4, "Absolute")   \* 0x8D
    , OpCode_new(157, "STA", 3, 5, "AbsoluteX")   \* 0x9D
    , OpCode_new(153, "STA", 3, 5, "AbsoluteY")   \* 0x99
    , OpCode_new(129, "STA", 2, 6, "IndirectX")   \* 0x81
    , OpCode_new(145, "STA", 2, 6, "IndirectY")   \* 0x91
    , OpCode_new(134, "STX", 2, 3, "ZeroPage")   \* 0x86
    , OpCode_new(150, "STX", 2, 4, "ZeroPageY")   \* 0x96
    , OpCode_new(142, "STX", 3, 4, "Absolute")   \* 0x8E
    , OpCode_new(132, "STY", 2, 3, "ZeroPage")   \* 0x84
    , OpCode_new(148, "STY", 2, 4, "ZeroPageX")   \* 0x94
    , OpCode_new(140, "STY", 3, 4, "Absolute")   \* 0x8C
    , OpCode_new(170, "TAX", 1, 2, "Implicit")   \* 0xAA
    , OpCode_new(168, "TAY", 1, 2, "Implicit")   \* 0xA8
    , OpCode_new(186, "TSX", 1, 2, "Implicit")   \* 0xBA
    , OpCode_new(138, "TXA", 1, 2, "Implicit")   \* 0x8A
    , OpCode_new(154, "TXS", 1, 2, "Implicit")   \* 0x9A
    , OpCode_new(152, "TYA", 1, 2, "Implicit")   \* 0x98
    }

\* The phf map: from an opcode byte to its entry.
CPU_OPS_CODES == [code \in {e.code : e \in OpCodes} |-> CHOOSE e \in OpCodes : e.code = code]

None == [code |-> -1, mnemonic |-> "None", len |-> 0, cycles |-> 0, mode |-> "None"]

\* A table lookup that answers NOP for a byte the table does not list.
OpCode_get_or_nop(code) ==
    IF code \in DOMAIN CPU_OPS_CODES THEN CPU_OPS_CODES[code] ELSE CPU_OPS_CODES[234]

OpCode_get(code) ==
    IF code \in DOMAIN CPU_OPS_CODES THEN CPU_OPS_CODES[code] ELSE None

----------------------------------------------------------------------------
(* cpu/instructions.rs: one routine per mnemonic.  A routine that resolves *)
(* an operand is split in two: `name(c, mode)` resolves it and             *)
(* `name_with(c, o)` is the rest of the routine, given the operand.        *)

\* A flag update that leaves the negative flag alone.
set_zero_only(c, v) == update_zero_flag(c, v = 0)

\* update_zero_flag(v == 0); update_negative_flag(v & NEGATIVE_BIT == NEGATIVE_BIT)
set_zero_negative(c, v) ==
    update_negative_flag(update_zero_flag(c, v = 0),
                         BitAnd(v, NEGATIVE_BIT) = NEGATIVE_BIT)

\* The flag updates from the register just written.
zn_a(c1) == set_zero_negative(c1, c1.register_a)
zn_x(c1) == set_zero_negative(c1, c1.register_x)
zn_y(c1) == set_zero_negative(c1, c1.register_y)

\* A carry-out computed without the carry-in.
adc_carry_without_carry_in(c2, old_val, value) ==
    update_carry_flag(c2, (old_val + value) > 255)

adc_carry(c2, old_val, value) ==
    update_carry_flag(c2, (old_val + value + BitAnd(c2.status, CARRY_BIT)) > 255)

adc_flags(c1, old_val, value) ==
    zn_a(adc_carry(
            update_overflow_flag(c1,
                BitAnd(BitAnd(BitNot(BitXor(old_val, value)),
                              BitXor(old_val, c1.register_a)), 128) # 0),
            old_val, value))

\* An ADC that adds 6 when D is set and the low digits sum above 9.
adc_with_decimal_adjust(c, o) ==
    IF o.fault # "none" THEN Panic(c, o.fault)
    ELSE adc_flags(
            [c EXCEPT !.register_a =
                wrapping_add8(
                    wrapping_add8(wrapping_add8(@, o.value), BitAnd(c.status, CARRY_BIT)),
                    IF BitAnd(c.status, DECIMAL_BIT) = DECIMAL_BIT
                       /\ (c.register_a % 16) + (o.value % 16)
                           + BitAnd(c.status, CARRY_BIT) > 9
                    THEN 6 ELSE 0)],
            c.register_a, o.value)

adc_with(c, o) ==
    IF o.fault # "none" THEN Panic(c, o.fault)
    ELSE adc_flags(
            [c EXCEPT !.register_a =
                wrapping_add8(wrapping_add8(@, o.value), BitAnd(c.status, CARRY_BIT))],
            c.register_a, o.value)

adc(c, mode) == adc_with(c, operand(c, mode))

and_with(c, o) ==
    IF o.fault # "none" THEN Panic(c, o.fault)
    ELSE zn_a([c EXCEPT !.register_a = BitAnd(@, o.value)])

and(c, mode) == and_with(c, operand(c, mode))

asl_accumulator(c) ==
    update_carry_flag(
        zn_a([c EXCEPT !.register_a = Shl8(@, 1)]),
        BitAnd(c.register_a, NEGATIVE_BIT) = NEGATIVE_BIT)

asl_memory(c, o) ==
    IF o.fault # "none" THEN Panic(c, o.fault)
    ELSE update_carry_flag(
            set_zero_negative(mem_write(c, o.addr, Shl8(o.value, 1)), Shl8(o.value, 1)),
            BitAnd(o.value, NEGATIVE_BIT) = NEGATIVE_BIT)

\* An ASL that asks the resolver for an address in every mode.
asl_without_accumulator_arm(c, mode) == asl_memory(c, operand(c, mode))

asl(c, mode) ==
    IF mode = "Accumulator" THEN asl_accumulator(c)
    ELSE asl_memory(c, operand(c, mode))

branch_to(c, r) ==
    IF r.fault # "none" THEN Panic(c, r.fault)
    ELSE [c EXCEPT !.program_counter = r.addr]

\* A branch that is taken whatever the condition.
branch_unconditional(c, condition, mode) ==
    branch_to(c, get_operand_address(c, mode))

branch(c, condition, mode) ==
    IF condition THEN branch_to(c, get_operand_address(c, mode)) ELSE c

\* A BIT whose V and N are bits 6 and 7 of A AND M.
bit_with_flags_of_result(c, o) ==
    IF o.fault # "none" THEN Panic(c, o.fault)
    ELSE update_negative_flag(
            update_overflow_flag(
                update_zero_flag(c, BitAnd(c.register_a, o.value) = 0),
                BitAnd(BitAnd(c.register_a, o.value), OVERFLOW_BIT) = OVERFLOW_BIT),
            BitAnd(BitAnd(c.register_a, o.value), NEGATIVE_BIT) = NEGATIVE_BIT)

bit_with(c, o) ==
    IF o.fault # "none" THEN Panic(c, o.fault)
    ELSE update_negative_flag(
            update_overflow_flag(
                update_zero_flag(c, BitAnd(c.register_a, o.value) = 0),
                BitAnd(o.value, OVERFLOW_BIT) = OVERFLOW_BIT),
            BitAnd(o.value, NEGATIVE_BIT) = NEGATIVE_BIT)

bit(c, mode) == bit_with(c, operand(c, mode))

clear(c, flag) ==
    CASE flag = "Carry" -> update_carry_flag(c, FALSE)
      [] flag = "InterruptDisable" -> update_interrupt_flag(c, FALSE)
      [] flag = "Decimal" -> update_decimal_flag(c, FALSE)
      [] flag = "Overflow" -> update_overflow_flag(c, FALSE)
      [] OTHER -> Panic(c, "unreachable")

\* A compare whose carry is the strict comparison.
compare_with_strict_carry(c, reg, o) ==
    IF o.fault # "none" THEN Panic(c, o.fault)
    ELSE set_zero_negative(update_carry_flag(c, reg > o.value),
                           wrapping_sub8(reg, o.value))

\* cmp, cpx and cpy: the same routine over register_a, register_x, register_y.
compare_with(c, reg, o) ==
    IF o.fault # "none" THEN Panic(c, o.fault)
    ELSE set_zero_negative(update_carry_flag(c, reg >= o.value),
                           wrapping_sub8(reg, o.value))

cmp(c, mode) == compare_with(c, c.register_a, operand(c, mode))
cpx(c, mode) == compare_with(c, c.register_x, operand(c, mode))
cpy(c, mode) == compare_with(c, c.register_y, operand(c, mode))

dec_with(c, o) ==
    IF o.fault # "none" THEN Panic(c, o.fault)
    ELSE set_zero_negative(mem_write(c, o.addr, wrapping_sub8(o.value, 1)),
                           wrapping_sub8(o.value, 1))

dec(c, mode) == dec_with(c, operand(c, mode))

dex(c) ==
    zn_x([c EXCEPT !.register_x = wrapping_sub8(@, 1)])

dey(c) ==
    zn_y([c EXCEPT !.register_y = wrapping_sub8(@, 1)])

eor_with(c, o) ==
    IF o.fault # "none" THEN Panic(c, o.fault)
    ELSE zn_a([c EXCEPT !.register_a = BitXor(@, o.value)])

eor(c, mode) == eor_with(c, operand(c, mode))

\* An INC that stops at 0xFF.
inc_with_saturation(c, o) ==
    IF o.fault # "none" THEN Panic(c, o.fault)
    ELSE IF o.value = 255 THEN set_zero_negative(c, 255)
    ELSE set_zero_negative(mem_write(c, o.addr, o.value + 1), o.value + 1)

inc_with(c, o) ==
    IF o.fault # "none" THEN Panic(c, o.fault)
    ELSE set_zero_negative(mem_write(c, o.addr, wrapping_add8(o.value, 1)),
                           wrapping_add8(o.value, 1))

inc(c, mode) == inc_with(c, operand(c, mode))

inx(c) ==
    zn_x([c EXCEPT !.register_x = wrapping_add8(@, 1)])

iny(c) ==
    zn_y([c EXCEPT !.register_y = wrapping_add8(@, 1)])

jmp(c, mode) == branch_to(c, get_operand_address(c, mode))

\* A push that decrements the stack pointer before it writes.
push_after_decrement(c, data) ==
    mem_write([c EXCEPT !.stack_pointer = wrapping_sub8(@, 1)],
              STACK + wrapping_sub8(c.stack_pointer, 1), data)

\* mem_write(STACK + stack_pointer, data); stack_pointer.wrapping_sub(1)
push(c, data) ==
    [mem_write(c, STACK + c.stack_pointer, data)
        EXCEPT !.stack_pointer = wrapping_sub8(@, 1)]

\* A JSR that pushes the low byte of the return address first.
jsr_push_low_byte_first(c, r, next_ins) ==
    IF r.fault # "none" THEN Panic(c, r.fault)
    ELSE [push(push(c, next_ins % U8), next_ins \div U8)
            EXCEPT !.program_counter = r.addr]

jsr_push(c, r, next_ins) ==
    IF r.fault # "none" THEN Panic(c, r.fault)
    ELSE [push(push(c, next_ins \div U8), next_ins % U8)
            EXCEPT !.program_counter = r.addr]

jsr(c, mode) ==
    jsr_push(c, get_operand_address(c, mode), wrapping_add16(c.program_counter, 1))

lda_with(c, o) ==
    IF o.fault # "none" THEN Panic(c, o.fault)
    ELSE zn_a([c EXCEPT !.register_a = o.value])

lda(c, mode) == lda_with(c, operand(c, mode))

ldx_with(c, o) ==
    IF o.fault # "none" THEN Panic(c, o.fault)
    ELSE zn_x([c EXCEPT !.register_x = o.value])

ldx(c, mode) == ldx_with(c, operand(c, mode))

ldy_with(c, o) ==
    IF o.fault # "none" THEN Panic(c, o.fault)
    ELSE zn_y([c EXCEPT !.register_y = o.value])

ldy(c, mode) == ldy_with(c, operand(c, mode))

\* An LSR of the accumulator whose carry is bit 7 of the old value.
lsr_accumulator_carry_from_bit7(c) ==
    update_carry_flag(
        zn_a([c EXCEPT !.register_a = Shr8(@, 1)]),
        BitAnd(c.register_a, NEGATIVE_BIT) = NEGATIVE_BIT)

lsr_accumulator(c) ==
    update_carry_flag(
        zn_a([c EXCEPT !.register_a = Shr8(@, 1)]),
        BitAnd(c.register_a, CARRY_BIT) = CARRY_BIT)

lsr_memory(c, o) ==
    IF o.fault # "none" THEN Panic(c, o.fault)
    ELSE update_carry_flag(
            set_zero_negative(mem_write(c, o.addr, Shr8(o.value, 1)), Shr8(o.value, 1)),
            BitAnd(o.value, CARRY_BIT) = CARRY_BIT)

lsr(c, mode) ==
    IF mode = "Accumulator" THEN lsr_accumulator(c)
    ELSE lsr_memory(c, operand(c, mode))

ora_with(c, o) ==
    IF o.fault # "none" THEN Panic(c, o.fault)
    ELSE zn_a([c EXCEPT !.register_a = BitOr(@, o.value)])

ora(c, mode) == ora_with(c, operand(c, mode))

pha(c) == push(c, c.register_a)

\* A PHP that leaves B and bit 5 set in P as well as in the byte it pushes.
php_setting_break(c) ==
    push([c EXCEPT !.status = BitOr(@, 48)], BitOr(c.status, 48))

php(c) == push(c, c.status)

\* stack_pointer.wrapping_add(1), and the byte then read at STACK + stack_pointer
pull(c) == [c EXCEPT !.stack_pointer = wrapping_add8(@, 1)]
pulled(c) == mem_read(c, STACK + c.stack_pointer)

pla_load(c1) == zn_a([c1 EXCEPT !.register_a = pulled(c1)])

\* A PLA that reads the stack before it moves the stack pointer.
pla_before_pull(c) == pull(pla_load(c))

pla(c) == pla_load(pull(c))

plp_load(c1) == [c1 EXCEPT !.status = pulled(c1)]

\* A PLP that keeps bit 4 clear and bit 5 set, whatever the byte pulled.
plp_ignoring_break(c) ==
    [pull(c) EXCEPT !.status = BitOr(BitAnd(pulled(pull(c)), 207), 32)]

plp(c) == plp_load(pull(c))

\* old_value << 1 | (status & CARRY_BIT)
rol_value(c, old_value) == BitOr(Shl8(old_value, 1), BitAnd(c.status, CARRY_BIT))

rol_accumulator(c) ==
    update_carry_flag(
        zn_a([c EXCEPT !.register_a = rol_value(c, c.register_a)]),
        BitAnd(c.register_a, NEGATIVE_BIT) = NEGATIVE_BIT)

rol_memory(c, o) ==
    IF o.fault # "none" THEN Panic(c, o.fault)
    ELSE update_carry_flag(
            set_zero_negative(mem_write(c, o.addr, rol_value(c, o.value)),
                              rol_value(c, o.value)),
            BitAnd(o.value, NEGATIVE_BIT) = NEGATIVE_BIT)

rol(c, mode) ==
    IF mode = "Accumulator" THEN rol_accumulator(c)
    ELSE rol_memory(c, operand(c, mode))

\* A rotate to the right that shifts a zero in.
ror_value_without_carry(c, old_value) == Shr8(old_value, 1)

\* (old_value >> 1) | ((status & CARRY_BIT) << 7)
ror_value(c, old_value) ==
    BitOr(Shr8(old_value, 1), Shl8(BitAnd(c.status, CARRY_BIT), 7))

ror_accumulator(c) ==
    update_carry_flag(
        zn_a([c EXCEPT !.register_a = ror_value(c, c.register_a)]),
        BitAnd(c.register_a, CARRY_BIT) = CARRY_BIT)

ror_memory(c, o) ==
    IF o.fault # "none" THEN Panic(c, o.fault)
    ELSE update_carry_flag(
            set_zero_negative(mem_write(c, o.addr, ror_value(c, o.value)),
                              ror_value(c, o.value)),
            BitAnd(o.value, CARRY_BIT) = CARRY_BIT)

ror(c, mode) ==
    IF mode = "Accumulator" THEN ror_accumulator(c)
    ELSE ror_memory(c, operand(c, mode))

\* The program counter's pulls: lo was pulled first, the high byte is on top.
rti_pc(c3, lo) == [c3 EXCEPT !.program_counter = (pulled(c3) * U8) + lo]

rti_lo(c2) == rti_pc(pull(c2), pulled(c2))

rti(c) == rti_lo(pull(plp(c)))

\* A return to the address pulled, without the increment.
rts_pc_without_increment(c2, lo) ==
    [c2 EXCEPT !.program_counter = (pulled(c2) * U8) + lo]

rts_pc(c2, lo) ==
    [c2 EXCEPT !.program_counter = wrapping_add16((pulled(c2) * U8) + lo, 1)]

rts_lo(c1) == rts_pc(pull(c1), pulled(c1))

rts(c) == rts_lo(pull(c))

sbc_overflow(c2, value, sum) ==
    update_overflow_flag(c2,
        BitAnd(BitAnd(BitNot(BitXor(c2.register_a, value)),
                      BitXor(c2.register_a, sum % U8)), 128) # 0)

sbc_sum(c, value, sum) ==
    zn_a(sbc_overflow(update_carry_flag([c EXCEPT !.register_a = sum % U8], sum > 255),
                      value, sum))

sbc_value(c, value) ==
    sbc_sum(c, value, c.register_a + value + BitAnd(c.status, CARRY_BIT))

sbc_with(c, o) ==
    IF o.fault # "none" THEN Panic(c, o.fault)
    ELSE sbc_value(c, BitXor(o.value, 255))

sbc(c, mode) == sbc_with(c, operand(c, mode))

sec(c) == update_carry_flag(c, TRUE)
sed(c) == update_decimal_flag(c, TRUE)
sei(c) == update_interrupt_flag(c, TRUE)

\* A store that sets Z and N from the byte it writes, as a load does.
store_with_flags(c, r, data) ==
    IF r.fault # "none" THEN Panic(c, r.fault)
    ELSE set_zero_negative(mem_write(c, r.addr, data), data)

store(c, r, data) ==
    IF r.fault # "none" THEN Panic(c, r.fault)
    ELSE mem_write(c, r.addr, data)

sta(c, mode) == store(c, get_operand_address(c, mode), c.register_a)
stx(c, mode) == store(c, get_operand_address(c, mode), c.register_x)
sty(c, mode) == store(c, get_operand_address(c, mode), c.register_y)

tax(c) == zn_x([c EXCEPT !.register_x = c.register_a])
tay(c) == zn_y([c EXCEPT !.register_y = c.register_a])
tsx(c) == zn_x([c EXCEPT !.register_x = c.stack_pointer])
txa(c) == zn_a([c EXCEPT !.register_a = c.register_x])
txs(c) == [c EXCEPT !.stack_pointer = c.register_x]
tya(c) == zn_a([c EXCEPT !.register_a = c.register_y])

----------------------------------------------------------------------------
(* cpu/mod.rs: construction, reset, load and the run loop.                 *)

new ==
    [register_a |-> 0, register_x |-> 0, register_y |-> 0,
     stack_pointer |-> STACK_RESET, status |-> RESET_STATUS,
     program_counter |-> 0, memory |-> ZeroMemory, fault |-> "none"]

\* A reset that leaves the stack pointer where it is.
reset_keeping_stack_pointer(c) ==
    LET c1 == [c EXCEPT !.register_a = 0, !.register_x = 0, !.register_y = 0,
                        !.status = RESET_STATUS]
        w == mem_read_u16(c1, RESET_VECTOR)
    IN  IF w.fault # "none" THEN Panic(c1, w.fault)
        ELSE [c1 EXCEPT !.program_counter = w.value]

reset(c) ==
    LET c1 == [c EXCEPT !.register_a = 0, !.register_x = 0, !.register_y = 0,
                        !.stack_pointer = STACK_RESET, !.status = RESET_STATUS]
        w == mem_read_u16(c1, RESET_VECTOR)
    IN  IF w.fault # "none" THEN Panic(c1, w.fault)
        ELSE [c1 EXCEPT !.program_counter = w.value]

\* A program image (&[u8]) is kept as its length and the map of its non-zero
\* bytes, indexed from 0.
ImageByte(program, i) == IF i \in DOMAIN program.bytes THEN program.bytes[i] ELSE 0

\* self.memory[base..(base + program.len())].copy_from_slice(program):
\* the slice expression panics when its end is beyond the array.
copy_from_slice(c, base, program) ==
    IF base + program.len > MEMORY_LEN
    THEN Panic(c, "index")
    ELSE LET range == base .. (base + program.len - 1)
             kept == (DOMAIN c.memory) \ range
             written == {base + i : i \in DOMAIN program.bytes}
         IN  [c EXCEPT !.memory =
                 [a \in kept \cup written |->
                     IF a \in written THEN program.bytes[a - base] ELSE c.memory[a]]]

\* A load that writes the reset vector before it copies the image.
load_vector_first(c, program) ==
    LET c1 == mem_write_u16(c, RESET_VECTOR, LOAD_BASE)
    IN  IF c1.fault # "none" THEN c1
        ELSE copy_from_slice(c1, LOAD_BASE, program)

load(c, program) ==
    LET c1 == copy_from_slice(c, LOAD_BASE, program)
    IN  IF c1.fault # "none" THEN c1
        ELSE mem_write_u16(c1, RESET_VECTOR, LOAD_BASE)

test_load(c, program) ==
    LET c1 == copy_from_slice(c, TEST_LOAD_BASE, program)
    IN  IF c1.fault # "none" THEN c1
        ELSE mem_write_u16(c1, RESET_VECTOR, TEST_LOAD_BASE)

\* A load_and_run that enters the loop without the reset.
load_and_run_without_reset(c, program) == load(c, program)

\* load_and_run up to the call of run(): self.load(program); self.reset().
load_and_run(c, program) ==
    LET c1 == load(c, program)
    IN  IF c1.fault # "none" THEN c1 ELSE reset(c1)

\* A BRK arm that leaves the program counter behind the BRK byte.
brk_without_step_back(c) == c

\* The BRK arm: the program counter is put back on the BRK byte (and run()
\* returns, see after_match).
brk(c) == [c EXCEPT !.program_counter = wrapping_sub16(@, 1)]

\* The match of run() over the mnemonic: the routine each arm calls.
execute(c, op) ==
    LET m == op.mnemonic
    IN  CASE m = "ADC" -> adc(c, op.mode)
          [] m = "AND" -> and(c, op.mode)
          [] m = "ASL" -> asl(c, op.mode)
          [] m = "BCC" -> branch(c, ~is_status_flag_set(c, "Carry"), op.mode)
          [] m = "BCS" -> branch(c, is_status_flag_set(c, "Carry"), op.mode)
          [] m = "BEQ" -> branch(c, is_status_flag_set(c, "Zero"), op.mode)
          [] m = "BIT" -> bit(c, op.mode)
          [] m = "BMI" -> branch(c, is_status_flag_set(c, "Negative"), op.mode)
          [] m = "BNE" -> branch(c, ~is_status_flag_set(c, "Zero"), op.mode)
          [] m = "BPL" -> branch(c, ~is_status_flag_set(c, "Negative"), op.mode)
          [] m = "BRK" -> brk(c)
          [] m = "BVC" -> branch(c, ~is_status_flag_set(c, "Overflow"), op.mode)
          [] m = "BVS" -> branch(c, is_status_flag_set(c, "Overflow"), op.mode)
          [] m = "CLC" -> clear(c, "Carry")
          [] m = "CLD" -> clear(c, "Decimal")
          [] m = "CLI" -> clear(c, "InterruptDisable")
          [] m = "CLV" -> clear(c, "Overflow")
          [] m = "CMP" -> cmp(c, op.mode)
          [] m = "CPX" -> cpx(c, op.mode)
          [] m = "CPY" -> cpy(c, op.mode)
          [] m = "DEC" -> dec(c, op.mode)
          [] m = "DEX" -> dex(c)
          [] m = "DEY" -> dey(c)
          [] m = "EOR" -> eor(c, op.mode)
          [] m = "INC" -> inc(c, op.mode)
          [] m = "INX" -> inx(c)
          [] m = "INY" -> iny(c)
          [] m = "JMP" -> jmp(c, op.mode)
          [] m = "JSR" -> jsr(c, op.mode)
          [] m = "LDA" -> lda(c, op.mode)
          [] m = "LDX" -> ldx(c, op.mode)
          [] m = "LDY" -> ldy(c, op.mode)
          [] m = "LSR" -> lsr(c, op.mode)
          [] m = "NOP" -> c
          [] m = "ORA" -> ora(c, op.mode)
          [] m = "PHA" -> pha(c)
          [] m = "PHP" -> php(c)
          [] m = "PLA" -> pla(c)
          [] m = "PLP" -> plp(c)
          [] m = "ROL" -> rol(c, op.mode)
          [] m = "ROR" -> ror(c, op.mode)
          [] m = "RTI" -> rti(c)
          [] m = "RTS" -> rts(c)
          [] m = "SBC" -> sbc(c, op.mode)
          [] m = "SEC" -> sec(c)
          [] m = "SED" -> sed(c)
          [] m = "SEI" -> sei(c)
          [] m = "STA" -> sta(c, op.mode)
          [] m = "STX" -> stx(c, op.mode)
          [] m = "STY" -> sty(c, op.mode)
          [] m = "TAX" -> tax(c)
          [] m = "TAY" -> tay(c)
          [] m = "TSX" -> tsx(c)
          [] m = "TXA" -> txa(c)
          [] m = "TXS" -> txs(c)
          [] m = "TYA" -> tya(c)

\* An advance by the whole length of the instruction.
advance_by_len(c, op) ==
    IF op.mnemonic \in {"BRK", "JMP", "JSR"} THEN c
    ELSE [c EXCEPT !.program_counter = wrapping_add16(@, op.len)]

\* What follows the match: BRK returns, JMP and JSR `continue`, every other
\* arm falls through to the program counter's advance by len - 1.
advance(c, op) ==
    IF op.mnemonic \in {"BRK", "JMP", "JSR"} THEN c
    ELSE [c EXCEPT !.program_counter = wrapping_add16(@, op.len - 1)]

\* One iteration of run()'s loop: [cpu, outcome, op, opcode], with outcome
\* "next" (the loop goes on), "return" (run() returned) or "panic".
Iteration(c, outcome, op, opcode) ==
    [cpu |-> c, outcome |-> outcome, op |-> op, opcode |-> opcode]

\* After the match, c2 being the CPU the arm left.
after_match(c2, op, opcode) ==
    IF c2.fault # "none" THEN Iteration(c2, "panic", op, opcode)
    ELSE IF op.mnemonic = "BRK" THEN Iteration(c2, "return", op, opcode)
    ELSE Iteration(advance(c2, op), "next", op, opcode)

\* The arguments of panic!("Illegal instruction {} reached at address {:#x}",
\* opcode, self.program_counter), c1 being the CPU at the panic.
illegal_instruction_message(c1, opcode) ==
    [opcode |-> opcode, address |-> c1.program_counter]

NoMessage == [opcode |-> -1, address |-> -1]

\* What iteration r reported when it aborted on an illegal opcode.
message_of(r) ==
    IF r.outcome = "panic" /\ r.cpu.fault = "illegal"
    THEN illegal_instruction_message(r.cpu, r.opcode)
    ELSE NoMessage

\* `if let Some(opcode_struct) = OpCode::get(opcode) { match .. } else { panic!(..) }`
decode(c1, opcode, op) ==
    IF op = None THEN Iteration(Panic(c1, "illegal"), "panic", None, opcode)
    ELSE after_match(execute(c1, op), op, opcode)

\* The fetch f of the opcode, and the program counter's increment.
fetch(c, f) ==
    IF f.fault # "none" THEN Iteration(Panic(c, f.fault), "panic", None, -1)
    ELSE decode([c EXCEPT !.program_counter = wrapping_add16(@, 1)],
                f.value, OpCode_get(f.value))

run_iteration(c) == fetch(c, mem_read_call(c, c.program_counter))

\* A loop whose JMP and JSR arms fall through to the advance.
iteration_without_continue(c) ==
    LET r == run_iteration(c)
    IN  IF r.outcome = "next" /\ r.op.mnemonic \in {"JMP", "JSR"}
        THEN [r EXCEPT !.cpu.program_counter = wrapping_add16(@, r.op.len - 1)]
        ELSE r

\* One iteration of test_run_with_callback's loop, up to its last statement:
\* the same fetch, match and advance as run()'s.
test_run_with_callback_iteration(c) == run_iteration(c)

\* Whether iteration r reaches `callback(self)`, the last statement of the
\* loop's body: the BRK arm returns and a panic unwinds before it, and the
\* JMP and JSR arms `continue` to the next iteration.
callback_reached(r) ==
    r.outcome = "next" /\ r.op.mnemonic \notin {"JMP", "JSR"}

\* The closure `|_| {}` that test_run() passes.
no_op_callback(c) == c

\* `callback(self)` with that closure, for the iterations that reach it.
with_callback(r) ==
    IF callback_reached(r) THEN [r EXCEPT !.cpu = no_op_callback(@)] ELSE r

\* One iteration of the loop test_run() runs.
test_run_iteration(c) == with_callback(test_run_with_callback_iteration(c))

\* run() entered in state c: where it is after at most n iterations, as
\* [cpu, outcome] with outcome "return", "panic" or "next" (still looping).
RECURSIVE run(_, _)
run(c, n) ==
    IF n = 0 THEN [cpu |-> c, outcome |-> "next"]
    ELSE LET r == run_iteration(c)
         IN  IF r.outcome = "next" THEN run(r.cpu, n - 1)
             ELSE [cpu |-> r.cpu, outcome |-> r.outcome]

\* test_run() entered in state c, likewise.
RECURSIVE test_run(_, _)
test_run(c, n) ==
    IF n = 0 THEN [cpu |-> c, outcome |-> "next"]
    ELSE LET r == test_run_iteration(c)
         IN  IF r.outcome = "next" THEN test_run(r.cpu, n - 1)
             ELSE [cpu |-> r.cpu, outcome |-> r.outcome]

----------------------------------------------------------------------------
(* bus/mod.rs: the Bus and its memory port.  The Bus is [cpu_vram, fault], *)
(* cpu_vram being the non-zero cells of the array [u8; 2048].              *)

CPU_VRAM_LEN == 2048

\* CPU RAM memory space
RAM == 0
RAM_MIRRORS_END == 8191

\* PPU memory space
PPU_REGISTERS == 8192
PPU_REGISTERS_MIRRORS_END == 16383

Bus_new == [cpu_vram |-> ZeroMemory, fault |-> "none"]

\* A fold that keeps twelve bits of the address.
mir_dn_addr_of_twelve_bits(addr) == BitAndN(addr, 4095, 16)

\* addr & 0b111_11111111
mir_dn_addr(addr) == BitAndN(addr, 2047, 16)

\* The index expression cpu_vram[i]: in bounds or a panic.
vram_index(i) == IF i < CPU_VRAM_LEN THEN "none" ELSE "index"

\* Bus::mem_read as a call: [fault, value].
Bus_mem_read(b, addr) ==
    CASE addr \in RAM .. RAM_MIRRORS_END ->
            [fault |-> vram_index(mir_dn_addr(addr)),
             value |-> Cell(b.cpu_vram, mir_dn_addr(addr))]
      [] addr \in PPU_REGISTERS .. PPU_REGISTERS_MIRRORS_END ->
            [fault |-> "todo", value |-> 0]
      [] OTHER -> [fault |-> "none", value |-> 0]

\* Bus::mem_write: the Bus after the call.
Bus_mem_write(b, addr, data) ==
    CASE addr \in RAM .. RAM_MIRRORS_END ->
            IF vram_index(mir_dn_addr(addr)) = "none"
            THEN [b EXCEPT !.cpu_vram = Store(@, mir_dn_addr(addr), data)]
            ELSE [b EXCEPT !.fault = "index"]
      [] addr \in PPU_REGISTERS .. PPU_REGISTERS_MIRRORS_END ->
            [b EXCEPT !.fault = "todo"]
      [] OTHER -> b

----------------------------------------------------------------------------
(* The state machine.  The host (a test, an embedding program) constructs  *)
(* a CPU, calls its public methods and assigns its public fields; run() is *)
(* entered by HostRun and each iteration of its loop is one Step.          *)

\* Bounds of the model.
MaxHostOps == 2
MaxSteps == 4

NoImage == [len |-> 0, bytes |-> ZeroMemory]

Last(op, addr, data, value, outcome) ==
    [op |-> op, addr |-> addr, data |-> data, value |-> value, outcome |-> outcome,
     image |-> NoImage, mnemonic |-> "None", mode |-> "None",
     calls |-> 0, seen |-> 0, message |-> NoMessage]

\* The most recent JSR: its address, the stack pointer before it and the two
\* bytes it left in the stack page.
NoFrame == [active |-> FALSE, addr |-> 0, sp |-> 0, hi |-> 0, lo |-> 0]

\* The operation before the last one.
NoPrior(c) == [cpu |-> c, op |-> "none", mnemonic |-> "None", outcome |-> "ok"]

Earlier ==
    [cpu |-> prev, op |-> last.op, mnemonic |-> last.mnemonic, outcome |-> last.outcome]

PhaseAfter(c) == IF c.fault = "none" THEN "host" ELSE "aborted"
OutcomeOf(c) == IF c.fault = "none" THEN "ok" ELSE "panic"

\* Images the host loads: programs of the tests, a program with an opcode
\* that is not in the table, the empty image, and images long enough to
\* reach the reset vector or the end of the array.
Image(len, bytes) == [len |-> len, bytes |-> bytes]

Images ==
    { Image(5, (0 :> 169) @@ (1 :> 192) @@ (2 :> 170) @@ (3 :> 232)),  \* LDA #$C0; TAX; INX; BRK
      Image(4, (0 :> 32) @@ (1 :> 33) @@ (2 :> 32)),                   \* JSR $2021; BRK
      Image(2, (0 :> 232) @@ (1 :> 255)),                              \* INX; 0xFF
      Image(3, (0 :> 40) @@ (1 :> 8)),                                 \* PLP; PHP; BRK
      Image(5, (0 :> 76) @@ (1 :> 3) @@ (2 :> 128) @@ (3 :> 232)),     \* JMP $8003; INX; BRK
      Image(0, ZeroMemory),
      Image(32766, (0 :> 234) @@ (32764 :> 170) @@ (32765 :> 187)),    \* 0x8000 + len = 0xFFFE
      Image(63999, (0 :> 234) @@ (63996 :> 204) @@ (63997 :> 221)) }   \* 0x0600 + len = 0xFFFF

HostAddrs == {0, 16, 65532, 65533, 65534, 65535}
HostBytes == {0, 96, 255}

\* Public fields the host assigns between calls.
HostRegisterWrites ==
    { [register_a |-> 80, status |-> 37, stack_pointer |-> 253],
      [register_a |-> 255, status |-> 255, stack_pointer |-> 0] }

Init ==
    /\ cpu = new
    /\ phase = "host"
    /\ prev = new
    /\ last = Last("new", 0, 0, 0, "ok")
    /\ fuel = [host |-> MaxHostOps, steps |-> MaxSteps]
    /\ frame = NoFrame
    /\ bus = Bus_new
    /\ prior = NoPrior(new)

HostCall ==
    /\ phase = "host"
    /\ fuel.host > 0
    /\ prev' = cpu
    /\ fuel' = [fuel EXCEPT !.host = @ - 1]
    /\ prior' = Earlier
    /\ UNCHANGED <<frame, bus>>

HostLoad ==
    /\ HostCall
    /\ \E program \in Images :
        /\ cpu' = load(cpu, program)
        /\ last' = [Last("load", LOAD_BASE, 0, 0, OutcomeOf(cpu')) EXCEPT !.image = program]
    /\ phase' = PhaseAfter(cpu')

HostTestLoad ==
    /\ HostCall
    /\ \E program \in Images :
        /\ cpu' = test_load(cpu, program)
        /\ last' = [Last("test_load", TEST_LOAD_BASE, 0, 0, OutcomeOf(cpu'))
                        EXCEPT !.image = program]
    /\ phase' = PhaseAfter(cpu')

\* The host calls load_and_run(program): after the load and the reset the
\* loop of run() is entered.
HostLoadAndRun ==
    /\ HostCall
    /\ \E program \in Images :
        /\ cpu' = load_and_run(cpu, program)
        /\ last' = [Last("load_and_run", LOAD_BASE, 0, 0, OutcomeOf(cpu'))
                        EXCEPT !.image = program]
    /\ phase' = IF cpu'.fault = "none" THEN "run" ELSE "aborted"

HostReset ==
    /\ HostCall
    /\ cpu' = reset(cpu)
    /\ last' = Last("reset", 0, 0, 0, OutcomeOf(cpu'))
    /\ phase' = PhaseAfter(cpu')

HostMemWrite ==
    /\ HostCall
    /\ \E addr \in HostAddrs, data \in HostBytes :
        /\ cpu' = mem_write(cpu, addr, data)
        /\ last' = Last("mem_write", addr, data, 0, OutcomeOf(cpu'))
    /\ phase' = PhaseAfter(cpu')

HostMemRead ==
    /\ HostCall
    /\ \E addr \in HostAddrs :
        \E r \in {mem_read_call(cpu, addr)} :
            /\ cpu' = IF r.fault = "none" THEN cpu ELSE Panic(cpu, r.fault)
            /\ last' = Last("mem_read", addr, 0, r.value, OutcomeOf(cpu'))
    /\ phase' = PhaseAfter(cpu')

HostSetRegisters ==
    /\ HostCall
    /\ \E w \in HostRegisterWrites :
        cpu' = [cpu EXCEPT !.register_a = w.register_a, !.status = w.status,
                           !.stack_pointer = w.stack_pointer]
    /\ last' = Last("set", 0, 0, 0, "ok")
    /\ phase' = "host"

\* The host calls run(): the loop is entered.
HostRun ==
    /\ phase = "host"
    /\ fuel.steps > 0
    /\ phase' = "run"
    /\ prev' = cpu
    /\ last' = Last("run", cpu.program_counter, 0, 0, "ok")
    /\ prior' = Earlier
    /\ UNCHANGED <<cpu, fuel, frame, bus>>

\* The record of a JSR that completed, kept until the next JSR.
FrameAfter(r) ==
    IF r.outcome = "next" /\ r.op.mnemonic = "JSR"
    THEN [active |-> TRUE, addr |-> cpu.program_counter, sp |-> cpu.stack_pointer,
          hi |-> Cell(r.cpu.memory, STACK + cpu.stack_pointer),
          lo |-> Cell(r.cpu.memory, STACK + wrapping_sub8(cpu.stack_pointer, 1))]
    ELSE frame

\* One iteration of the loop of run().
Step ==
    /\ phase = "run"
    /\ fuel.steps > 0
    /\ \E r \in {run_iteration(cpu)} :
           /\ cpu' = r.cpu
           /\ phase' = CASE r.outcome = "next" -> "run"
                         [] r.outcome = "return" -> "host"
                         [] r.outcome = "panic" -> "aborted"
           /\ last' = [Last("step", cpu.program_counter, r.opcode, 0, r.outcome)
                          EXCEPT !.mnemonic = r.op.mnemonic, !.mode = r.op.mode,
                                 !.message = message_of(r)]
           /\ frame' = FrameAfter(r)
    /\ prev' = cpu
    /\ prior' = Earlier
    /\ fuel' = [fuel EXCEPT !.steps = @ - 1]
    /\ UNCHANGED bus

\* The host calls test_run_with_callback(callback), with a callback that
\* records the program counter it is shown: the loop is entered.
HostRunWithCallback ==
    /\ phase = "host"
    /\ fuel.steps > 0
    /\ phase' = "trace"
    /\ prev' = cpu
    /\ last' = Last("test_run_with_callback", cpu.program_counter, 0, 0, "ok")
    /\ prior' = Earlier
    /\ UNCHANGED <<cpu, fuel, frame, bus>>

\* One iteration of the loop of test_run_with_callback(); last.calls counts
\* the callback's invocations in it and last.seen is what the callback saw.
StepWithCallback ==
    /\ phase = "trace"
    /\ fuel.steps > 0
    /\ \E r \in {test_run_with_callback_iteration(cpu)} :
           /\ cpu' = r.cpu
           /\ phase' = CASE r.outcome = "next" -> "trace"
                         [] r.outcome = "return" -> "host"
                         [] r.outcome = "panic" -> "aborted"
           /\ last' = [Last("trace", cpu.program_counter, r.opcode, 0, r.outcome)
                          EXCEPT !.mnemonic = r.op.mnemonic, !.mode = r.op.mode,
                                 !.message = message_of(r),
                                 !.calls = IF callback_reached(r) THEN 1 ELSE 0,
                                 !.seen = IF callback_reached(r)
                                          THEN r.cpu.program_counter ELSE 0]
           /\ frame' = FrameAfter(r)
    /\ prev' = cpu
    /\ prior' = Earlier
    /\ fuel' = [fuel EXCEPT !.steps = @ - 1]
    /\ UNCHANGED bus

Next ==
    \/ HostLoad
    \/ HostTestLoad
    \/ HostReset
    \/ HostMemWrite
    \/ HostMemRead
    \/ HostSetRegisters
    \/ HostRun
    \/ Step
    \/ HostRunWithCallback
    \/ HostLoadAndRun
    \/ StepWithCallback

Spec == Init /\ [][Next]_vars

----------------------------------------------------------------------------
(* The 16-bit helpers of the memory port, called by the host on a fresh    *)
(* CPU and on one whose memory holds data.                                 *)

WordAddrs == {0, 255, 256, 65531, 65532, 65533, 65534, 65535}
Words == {0, 255, 4660, 32768, 65535}

HostMemWriteU16 ==
    /\ HostCall
    /\ \E pos \in WordAddrs, data \in Words :
        /\ cpu' = mem_write_u16(cpu, pos, data)
        /\ last' = Last("mem_write_u16", pos, data, 0, OutcomeOf(cpu'))
    /\ phase' = PhaseAfter(cpu')

HostMemReadU16 ==
    /\ HostCall
    /\ \E pos \in WordAddrs :
        \E r \in {mem_read_u16(cpu, pos)} :
            /\ cpu' = IF r.fault = "none" THEN cpu ELSE Panic(cpu, r.fault)
            /\ last' = Last("mem_read_u16", pos, 0, r.value, OutcomeOf(cpu'))
    /\ phase' = PhaseAfter(cpu')

WordInit ==
    /\ cpu \in {new, [new EXCEPT !.memory = (255 :> 52) @@ (256 :> 86) @@ (65534 :> 64)]}
    /\ phase = "host"
    /\ prev = cpu
    /\ last = Last("new", 0, 0, 0, "ok")
    /\ fuel = [host |-> MaxHostOps, steps |-> 0]
    /\ frame = NoFrame
    /\ bus = Bus_new
    /\ prior = NoPrior(cpu)

WordNext == HostMemWriteU16 \/ HostMemReadU16

WordSpec == WordInit /\ [][WordNext]_vars

----------------------------------------------------------------------------
(* Specifications of the run loop alone.  The registers, the status, the   *)
(* program counter are public fields and memory is written through the     *)
(* memory port, so run() can be entered in any state: each Init below      *)
(* draws the state run() is entered in from bounded sets.                  *)

Machine(regs, pc, memory) ==
    [register_a |-> regs.a, register_x |-> regs.x, register_y |-> regs.y,
     stack_pointer |-> regs.sp, status |-> regs.p,
     program_counter |-> pc, memory |-> memory, fault |-> "none"]

Regs(a, x, y, sp, p) == [a |-> a, x |-> x, y |-> y, sp |-> sp, p |-> p]

\* A byte placed in the array; there is no cell beyond the array's end.
Place(memory, addr, data) ==
    IF InBounds(addr % U16) THEN Store(memory, addr % U16, data) ELSE memory

RECURSIVE PlaceAll(_, _, _)
PlaceAll(memory, addr, bytes) ==
    IF bytes = <<>> THEN memory
    ELSE PlaceAll(Place(memory, addr, Head(bytes)), addr + 1, Tail(bytes))

\* run() entered in state c, with `steps` iterations allowed.
Entered(c, steps) ==
    /\ cpu = c
    /\ phase = "run"
    /\ prev = c
    /\ last = Last("run", c.program_counter, 0, 0, "ok")
    /\ fuel = [host |-> 0, steps |-> steps]
    /\ frame = NoFrame
    /\ bus = Bus_new
    /\ prior = NoPrior(c)

\* Data the instructions find in page zero, in the stack page and beyond.
Background ==
       (0 :> 18) @@ (1 :> 3) @@ (16 :> 85) @@ (17 :> 2) @@ (127 :> 128)
    @@ (128 :> 255) @@ (129 :> 255) @@ (255 :> 52)
    @@ (256 :> 86) @@ (258 :> 32) @@ (510 :> 195) @@ (511 :> 33)
    @@ (528 :> 1) @@ (8225 :> 96) @@ (65534 :> 64)

RegisterFiles ==
    { Regs(0, 0, 0, 253, 36),
      Regs(128, 255, 1, 0, 255),
      Regs(127, 1, 255, 255, 0) }

StartPCs == {32768, 65533, 65534, 65535}
OperandLo == {0, 16, 128, 255}
OperandHi == {0, 2, 255}

\* Any opcode byte, with operand bytes, at the program counter.
StepInit ==
    \E pc \in StartPCs, opcode \in Byte, lo \in OperandLo, hi \in OperandHi,
       regs \in RegisterFiles :
        Entered(Machine(regs, pc, PlaceAll(Background, pc, <<opcode, lo, hi>>)),
                MaxSteps)

StepSpec == StepInit /\ [][Step]_vars

----------------------------------------------------------------------------
(* Properties of the driver, of reset and load, and of the memory port.    *)

Registers(c) ==
    <<c.register_a, c.register_x, c.register_y, c.stack_pointer, c.status>>

\* The last operation was an iteration of run()'s loop.
Stepped == last.op = "step"

\* The iteration fetched an opcode byte (the fetch itself did not abort).
Fetched == Stepped /\ InBounds(prev.program_counter)

FetchedByte == Cell(prev.memory, prev.program_counter)

\* C1: run() returns exactly when the opcode fetched at PC is BRK (0x00);
\* on return PC is the address of that BRK byte and A, X, Y, SP, P and all
\* of memory are as they were immediately before the BRK was fetched.
C1_RunReturnsExactlyOnBrk ==
    Stepped =>
        /\ (last.outcome = "return") <=> (Fetched /\ FetchedByte = 0)
        /\ (last.outcome = "return") =>
              /\ phase = "host"
              /\ cpu.program_counter = prev.program_counter
              /\ Cell(cpu.memory, cpu.program_counter) = 0
              /\ Registers(cpu) = Registers(prev)
              /\ cpu.memory = prev.memory
              /\ cpu.fault = "none"

\* run() has returned on a BRK, from a state with registers and flags set.
C1_Witness ==
    /\ Stepped
    /\ last.outcome = "return"
    /\ prev.program_counter = 32768
    /\ prev.register_a = 128
    /\ prev.status = 255

Loaded == last.op \in {"load", "test_load"} /\ last.outcome = "ok"

\* The cells the image was copied to.
InImage(a) == a >= last.addr /\ a < last.addr + last.image.len

VectorCells == {65532, 65533}

\* Every cell that holds a non-zero byte before the call, after it, or in
\* the image, and the cells of the reset vector: any other cell holds zero
\* before, after and in the image.
Cells ==
    (DOMAIN cpu.memory) \cup (DOMAIN prev.memory) \cup VectorCells
        \cup {last.addr + i : i \in DOMAIN last.image.bytes}

VectorReadsBase ==
    /\ Cell(cpu.memory, 65532) = last.addr % 256
    /\ Cell(cpu.memory, 65533) = last.addr \div 256

\* C3 (as stated): after load(image) (base 0x8000) or test_load(image) (base
\* 0x0600), for every i < len(image) memory at base + i holds image[i], the
\* word at 0xFFFC/0xFFFD reads back as the base, every other cell is
\* unchanged, and a following reset() sets PC to the base.
C3_LoadAsStated ==
    Loaded =>
        /\ \A a \in Cells :
              InImage(a) => Cell(cpu.memory, a) = ImageByte(last.image, a - last.addr)
        /\ VectorReadsBase
        /\ \A a \in Cells :
              (~InImage(a) /\ a \notin VectorCells)
                  => Cell(cpu.memory, a) = Cell(prev.memory, a)
        /\ reset(cpu).program_counter = last.addr

\* C3 (amended): after load(image) or test_load(image) has returned, for
\* every i < len(image) with base + i outside the reset vector memory at
\* base + i holds image[i]; the word at 0xFFFC/0xFFFD reads back as the base
\* even where the image reaches it; every other cell is unchanged, and a
\* following reset() sets PC to the base.
C3_LoadCopiesThenWritesVector ==
    Loaded =>
        /\ \A a \in Cells :
              (InImage(a) /\ a \notin VectorCells)
                  => Cell(cpu.memory, a) = ImageByte(last.image, a - last.addr)
        /\ VectorReadsBase
        /\ \A a \in Cells :
              (~InImage(a) /\ a \notin VectorCells)
                  => Cell(cpu.memory, a) = Cell(prev.memory, a)
        /\ reset(cpu).program_counter = last.addr

\* load has returned for an image that reaches the reset vector and holds
\* the byte 0xAA for the cell 0xFFFC.
C3_Witness ==
    /\ Loaded
    /\ last.op = "load"
    /\ InImage(65532)
    /\ ImageByte(last.image, 65532 - last.addr) = 170

\* C4: memory is a flat 65,536-byte space: for every address a in
\* 0x0000..=0xFFFF, mem_write(a, v) followed by mem_read(a) returns v, no
\* other cell changes and neither call aborts; an opcode fetch at PC =
\* 0xFFFF does not abort.
C4_FlatMemory ==
    /\ last.op = "mem_write" =>
          /\ last.outcome = "ok"
          /\ mem_read_call(cpu, last.addr) = [fault |-> "none", value |-> last.data]
          /\ \A a \in ((DOMAIN cpu.memory) \cup (DOMAIN prev.memory)) \ {last.addr} :
                Cell(cpu.memory, a) = Cell(prev.memory, a)
    /\ last.op = "mem_read" =>
          /\ last.outcome = "ok"
          /\ last.value = Cell(prev.memory, last.addr)
          /\ cpu.memory = prev.memory
    /\ (Stepped /\ prev.program_counter = 65535) => last.data >= 0

\* The opcodes of the table.
TableOpcodes == DOMAIN CPU_OPS_CODES

\* C5: when the byte fetched at PC is not one of the opcodes of the table,
\* run() does not return normally: it aborts, no further instruction is
\* executed, and A, X, Y, SP, P and memory are as they were before the
\* fetch.
C5_IllegalOpcodeAborts ==
    (Fetched /\ FetchedByte \notin TableOpcodes) =>
        /\ last.outcome = "panic"
        /\ phase = "aborted"
        /\ cpu.fault = "illegal"
        /\ ~ENABLED Step
        /\ Registers(cpu) = Registers(prev)
        /\ cpu.memory = prev.memory

\* The byte 0xFF was fetched, with registers and flags set.
C5_Witness ==
    /\ Fetched
    /\ FetchedByte = 255
    /\ phase = "aborted"
    /\ prev.register_a = 128
    /\ prev.stack_pointer = 0

----------------------------------------------------------------------------
(* The adder: ADC and SBC with an immediate operand, for every accumulator *)
(* value, every operand and both values of the carry.                      *)

AluStatuses == {36, 37}

\* run() entered on `opcode #m` with accumulator a and status p.
AluEntered(opcode) ==
    \E a \in Byte, m \in Byte, p \in AluStatuses :
        Entered(Machine(Regs(a, 17, 34, 253, p), LOAD_BASE,
                        PlaceAll(ZeroMemory, LOAD_BASE, <<opcode, m>>)), 1)

AdcInit == AluEntered(105)   \* ADC #m

AdcSpec == AdcInit /\ [][Step]_vars

SbcInit == AluEntered(233)   \* SBC #m

SbcSpec == SbcInit /\ [][Step]_vars

\* The status bit of mask k (a power of two), as 0 or 1.
Flag(p, k) == (p \div k) % 2

Bit7(v) == (v \div 128) % 2

\* A byte as a signed number.
Signed(v) == IF v >= 128 THEN v - 256 ELSE v

\* The last iteration executed mnemonic m with an immediate operand, to its
\* end.
Executed(m) ==
    /\ Stepped
    /\ last.mnemonic = m
    /\ last.mode = "Immediate"
    /\ last.outcome = "next"

\* The accumulator, the immediate operand and the carry before the step.
A0 == prev.register_a
M0 == Cell(prev.memory, wrapping_add16(prev.program_counter, 1))
Cin == Flag(prev.status, 1)

\* C6: for every accumulator value A, operand M and carry-in Cin, ADC leaves
\* A' = (A + M + Cin) mod 256, C' = (A + M + Cin > 255), V' set iff bit 7 of
\* A equals bit 7 of M and differs from bit 7 of A', Z' = (A' = 0), N' = bit
\* 7 of A'; X, Y, SP and the status bits I, D, 4 and 5 are unchanged.
C6_AdcSum ==
    Executed("ADC") =>
        /\ cpu.register_a = (A0 + M0 + Cin) % 256
        /\ (Flag(cpu.status, 1) = 1) <=> (A0 + M0 + Cin > 255)
        /\ (Flag(cpu.status, 64) = 1) <=>
              (Bit7(A0) = Bit7(M0) /\ Bit7(A0) # Bit7(cpu.register_a))
        /\ (Flag(cpu.status, 2) = 1) <=> (cpu.register_a = 0)
        /\ Flag(cpu.status, 128) = Bit7(cpu.register_a)
        /\ cpu.register_x = prev.register_x
        /\ cpu.register_y = prev.register_y
        /\ cpu.stack_pointer = prev.stack_pointer
        /\ \A k \in {4, 8, 16, 32} : Flag(cpu.status, k) = Flag(prev.status, k)

\* ADC has added 0x50 and 0x50 with the carry set: a signed overflow.
C6_Witness ==
    /\ Executed("ADC")
    /\ A0 = 80
    /\ M0 = 80
    /\ Cin = 1
    /\ cpu.register_a = 161
    /\ Flag(cpu.status, 64) = 1

\* The accumulator and the flags C, Z, V, N.
Sum(c) ==
    <<c.register_a, Flag(c.status, 1), Flag(c.status, 2),
      Flag(c.status, 64), Flag(c.status, 128)>>

\* ADC #m executed from state c.
AdcFrom(c, m) ==
    run_iteration([c EXCEPT !.memory =
                      PlaceAll(@, c.program_counter, <<105, m>>)]).cpu

\* C7: for every accumulator value A, operand M and carry-in Cin, SBC with
\* operand M yields the same A, C, V, Z and N as ADC with operand M XOR 0xFF
\* from the same starting state; V after SBC is set iff the signed
\* subtraction overflowed.
C7_SbcIsAdcOfComplement ==
    Executed("SBC") =>
        /\ Sum(cpu) = Sum(AdcFrom(prev, 255 - M0))
        /\ (Flag(cpu.status, 64) = 1) <=>
              ((Signed(A0) - Signed(M0)) - (1 - Cin) \notin (-128 .. 127))

----------------------------------------------------------------------------
(* The flags Z and N after an instruction that writes a register.          *)

WritesA == {"LDA", "TXA", "TYA", "AND", "ORA", "EOR", "ADC", "SBC", "PLA"}
WritesX == {"LDX", "TAX", "TSX", "INX", "DEX"}
WritesY == {"LDY", "TAY", "INY", "DEY"}
Shifts == {"ASL", "LSR", "ROL", "ROR"}

\* The last iteration executed, to its end, an instruction that writes A, X
\* or Y.
WroteRegister ==
    /\ Stepped
    /\ last.outcome = "next"
    /\ \/ last.mnemonic \in WritesA \cup WritesX \cup WritesY
       \/ last.mnemonic \in Shifts /\ last.mode = "Accumulator"

\* The value it wrote.
Written ==
    IF last.mnemonic \in WritesX THEN cpu.register_x
    ELSE IF last.mnemonic \in WritesY THEN cpu.register_y
    ELSE cpu.register_a

\* C8: after every instruction that writes A, X or Y (LDA, LDX, LDY, TAX,
\* TAY, TSX, TXA, TYA, INX, INY, DEX, DEY, AND, ORA, EOR, ADC, SBC, PLA and
\* the accumulator forms of ASL, LSR, ROL, ROR), Z is set iff the value
\* written is 0 and N equals bit 7 of the value written.
C8_ZeroNegativeFollowRegister ==
    WroteRegister =>
        /\ (Flag(cpu.status, 2) = 1) <=> (Written = 0)
        /\ Flag(cpu.status, 128) = Bit7(Written)

\* PLA has pulled the byte 0 into a non-zero accumulator while N was set:
\* Z is set and N is cleared.
C8_Witness ==
    /\ WroteRegister
    /\ last.mnemonic = "PLA"
    /\ prev.register_a = 128
    /\ prev.status = 255
    /\ cpu.register_a = 0
    /\ Flag(cpu.status, 128) = 0
    /\ Flag(cpu.status, 2) = 1

----------------------------------------------------------------------------
(* The branches, for every offset byte.                                    *)

BranchOpcodes == {16, 48, 80, 112, 144, 176, 208, 240}
BranchPCs == {0, 32768, 65520, 65534}
\* No flag, every flag, and each of C, Z, V, N alone.
BranchStatuses == {0, 255, 1, 2, 64, 128}

BranchInit ==
    \E pc \in BranchPCs, opcode \in BranchOpcodes, o \in Byte, p \in BranchStatuses :
        Entered(Machine(Regs(1, 2, 3, 253, p), pc,
                        PlaceAll(ZeroMemory, pc, <<opcode, o>>)), 1)

BranchSpec == BranchInit /\ [][Step]_vars

Branches == {"BCC", "BCS", "BEQ", "BNE", "BMI", "BPL", "BVC", "BVS"}

\* The condition of branch m under status p.
Taken(m, p) ==
    CASE m = "BCC" -> Flag(p, 1) = 0
      [] m = "BCS" -> Flag(p, 1) = 1
      [] m = "BNE" -> Flag(p, 2) = 0
      [] m = "BEQ" -> Flag(p, 2) = 1
      [] m = "BVC" -> Flag(p, 64) = 0
      [] m = "BVS" -> Flag(p, 64) = 1
      [] m = "BPL" -> Flag(p, 128) = 0
      [] m = "BMI" -> Flag(p, 128) = 1

\* The last iteration executed a branch to its end.
Branched == Stepped /\ last.mnemonic \in Branches /\ last.outcome = "next"

\* C9: for a branch at address a with operand byte o, after the step PC =
\* (a + 2 + sign_extend(o)) mod 65536 if the branch is taken and PC =
\* (a + 2) mod 65536 if it is not, for every o in 0x00..=0xFF.
C9_BranchTarget ==
    Branched =>
        cpu.program_counter =
            IF Taken(last.mnemonic, prev.status)
            THEN (prev.program_counter + 2 + Signed(M0) + 65536) % 65536
            ELSE (prev.program_counter + 2) % 65536

\* BNE at address 0 with offset 0x80 was taken: PC moved back past 0.
C9_Witness ==
    /\ Branched
    /\ last.mnemonic = "BNE"
    /\ prev.program_counter = 0
    /\ M0 = 128
    /\ Taken("BNE", prev.status)
    /\ cpu.program_counter = 65410

----------------------------------------------------------------------------
(* Subroutine call and return.                                             *)

CallSites == {1536, 32768, 65532}
CallTargets == {768, 8225}
CallStackPointers == {0, 1, 2, 253, 255}

\* Subroutine bodies, as the bytes placed at the target.
CallBodies ==
    { <<96>>,           \* RTS
      <<234, 96>>,      \* NOP; RTS
      <<72, 104, 96>>,  \* PHA; PLA; RTS
      <<232, 200, 96>>, \* INX; INY; RTS
      <<104, 96>>,      \* PLA; RTS: the stack pointer is not as on entry
      <<104, 8, 96>> }  \* PLA; PHP; RTS: a pushed byte is overwritten

CallInit ==
    \E a \in CallSites, t \in CallTargets, sp \in CallStackPointers,
       body \in CallBodies :
        \E m \in {PlaceAll(ZeroMemory, a, <<32, t % 256, t \div 256>>)} :
            Entered(Machine(Regs(119, 2, 3, sp, 36), a, PlaceAll(m, t, body)),
                    MaxSteps)

CallSpec == CallInit /\ [][Step]_vars

\* The last iteration executed an RTS to its end, entered with the stack
\* pointer as the last JSR left it and with the two bytes that JSR pushed
\* still in place.
Returned ==
    /\ Stepped
    /\ last.mnemonic = "RTS"
    /\ last.outcome = "next"
    /\ frame.active
    /\ prev.stack_pointer = (frame.sp + 254) % 256
    /\ Cell(prev.memory, 256 + frame.sp) = frame.hi
    /\ Cell(prev.memory, 256 + ((frame.sp + 255) % 256)) = frame.lo

\* C10: for any JSR at address a with any absolute target and any SP
\* (including 0x00 and 0x01, where the pushes wrap inside the stack page),
\* if the subroutine body leaves SP as on entry and does not overwrite the
\* two pushed bytes, the matching RTS sets PC to (a + 3) mod 65536 and
\* restores SP to its value before the JSR.
C10_ReturnFollowsCall ==
    Returned =>
        /\ cpu.program_counter = (frame.addr + 3) % 65536
        /\ cpu.stack_pointer = frame.sp

\* A JSR entered with SP = 0x00 was returned from, after a body that pushed
\* and pulled.
C10_Witness ==
    /\ Returned
    /\ frame.sp = 0
    /\ frame.addr = 32768
    /\ Cell(prev.memory, 510) = 119
    /\ cpu.program_counter = 32771
    /\ cpu.stack_pointer = 0

----------------------------------------------------------------------------
(* Push and pull: PHA; PLA and PHP; PLP.                                   *)

StackPointers == {0, 1, 253, 255}
PushedStatuses == {34, 36, 160}
PushedAccumulators == {0, 119}

\* PHA; PLA at the program counter, for every accumulator value.
PushPullInit ==
    \E a \in Byte, sp \in StackPointers, p \in PushedStatuses :
        Entered(Machine(Regs(a, 2, 3, sp, p), LOAD_BASE,
                        PlaceAll(Background, LOAD_BASE, <<72, 104>>)), 2)

PushPullSpec == PushPullInit /\ [][Step]_vars

\* PHP; PLP at the program counter, for every status byte.
StatusInit ==
    \E p \in Byte, sp \in StackPointers, a \in PushedAccumulators :
        Entered(Machine(Regs(a, 2, 3, sp, p), LOAD_BASE,
                        PlaceAll(Background, LOAD_BASE, <<8, 40>>)), 2)

StatusSpec == StatusInit /\ [][Step]_vars

\* The last two iterations executed `first` and then `second`, to the end.
ExecutedPair(first, second) ==
    /\ Stepped
    /\ last.mnemonic = second
    /\ last.outcome = "next"
    /\ prior.op = "step"
    /\ prior.mnemonic = first
    /\ prior.outcome = "next"

\* C11: for any byte v in A and any SP (including 0x00, where SP wraps),
\* PHA then PLA leaves A = v and SP equal to its value before the PHA, with
\* Z and N reflecting v.
C11_PushPullAccumulator ==
    ExecutedPair("PHA", "PLA") =>
        /\ cpu.register_a = prior.cpu.register_a
        /\ cpu.stack_pointer = prior.cpu.stack_pointer
        /\ (Flag(cpu.status, 2) = 1) <=> (prior.cpu.register_a = 0)
        /\ Flag(cpu.status, 128) = Bit7(prior.cpu.register_a)

\* PHA; PLA ran with SP = 0x00 and A = 0x80 while Z was set and N clear.
C11_Witness ==
    /\ ExecutedPair("PHA", "PLA")
    /\ prior.cpu.stack_pointer = 0
    /\ prior.cpu.register_a = 128
    /\ prior.cpu.status = 34
    /\ Cell(cpu.memory, 256) = 128
    /\ cpu.status = 160

----------------------------------------------------------------------------
(* The reserved bit of the status byte.                                    *)

\* The last iteration executed PHP to its end.
PushedStatus == Stepped /\ last.mnemonic = "PHP" /\ last.outcome = "next"

\* The byte PHP stored.
StoredStatus == Cell(cpu.memory, 256 + prev.stack_pointer)

\* C13: after any sequence of instructions executed from reset, the byte
\* that PHP stores on the stack has bit 5 set, and P observed after a PHP;
\* PLP pair has bit 5 set.
C13_ReservedBitPushedSet ==
    /\ PushedStatus => Flag(StoredStatus, 32) = 1
    /\ ExecutedPair("PHP", "PLP") => Flag(cpu.status, 32) = 1

----------------------------------------------------------------------------
(* The callback of test_run_with_callback.                                 *)

\* The last operation was an iteration of test_run_with_callback's loop.
Traced == last.op = "trace"

\* C14: the callback-taking run loop invokes the callback exactly once after
\* every executed instruction other than BRK (JMP and JSR included), once
\* that instruction's update of PC is complete, and never for the BRK that
\* ends the run.
C14_CallbackAfterEveryInstruction ==
    Traced =>
        /\ last.outcome = "next" => last.calls = 1 /\ last.seen = cpu.program_counter
        /\ last.outcome = "return" => last.calls = 0

----------------------------------------------------------------------------
(* load_and_run.                                                           *)

\* The host's last call was load_and_run.
LoadedAndRun == last.op = "load_and_run"

\* The state in which run() is entered after the host's separate calls
\* load(image) and reset() from state c.
LoadThenReset(c, program) ==
    IF load(c, program).fault # "none" THEN load(c, program)
    ELSE reset(load(c, program))

\* C15: load_and_run(image) enters the loop of run() in the state that
\* load(image); reset() reach from the same starting state, and the loop is
\* the same from there on: the registers and the status set before the call
\* are replaced by the reset values, and memory outside the image and the
\* reset vector is what it was before the call.
C15_LoadAndRunIsLoadResetRun ==
    LoadedAndRun =>
        /\ cpu = LoadThenReset(prev, last.image)
        /\ last.outcome = "ok" =>
            /\ phase = "run"
            /\ Registers(cpu) = <<0, 0, 0, STACK_RESET, RESET_STATUS>>
            /\ cpu.program_counter = LOAD_BASE
            /\ \A a \in Cells :
                   (~InImage(a) /\ a \notin VectorCells)
                       => Cell(cpu.memory, a) = Cell(prev.memory, a)

\* The registers and the status were set before the call, and are reset.
C15_Witness ==
    /\ LoadedAndRun
    /\ last.outcome = "ok"
    /\ phase = "run"
    /\ prev.register_a = 255
    /\ prev.status = 255
    /\ cpu.register_a = 0
    /\ cpu.status = RESET_STATUS
    /\ cpu.program_counter = LOAD_BASE

----------------------------------------------------------------------------
(* The compares: CMP, CPX and CPY with an immediate operand, for every     *)
(* value of the register compared and every operand.                       *)

CompareOpcodes == {201, 224, 192}   \* CMP #m, CPX #m, CPY #m
CompareStatuses == {36, 219}

\* The register file in which the register that `opcode` compares holds r.
CompareRegs(opcode, r, p) ==
    CASE opcode = 201 -> Regs(r, 17, 34, 253, p)
      [] opcode = 224 -> Regs(17, r, 34, 253, p)
      [] opcode = 192 -> Regs(17, 34, r, 253, p)

CompareInit ==
    \E opcode \in CompareOpcodes, r \in Byte, m \in Byte, p \in CompareStatuses :
        Entered(Machine(CompareRegs(opcode, r, p), LOAD_BASE,
                        PlaceAll(ZeroMemory, LOAD_BASE, <<opcode, m>>)), 1)

CompareSpec == CompareInit /\ [][Step]_vars

\* The last iteration executed a compare with an immediate operand.
Compared == Executed("CMP") \/ Executed("CPX") \/ Executed("CPY")

\* The register the compare read, before the step.
R0 ==
    CASE last.mnemonic = "CMP" -> prev.register_a
      [] last.mnemonic = "CPX" -> prev.register_x
      [] last.mnemonic = "CPY" -> prev.register_y
      [] OTHER -> 0

\* C16: for every register value r (A for CMP, X for CPX, Y for CPY) and
\* operand M, the compare sets C iff r >= M, Z iff r = M and N to bit 7 of
\* (r - M) mod 256, and leaves A, X, Y, SP, memory and the status bits V, I
\* and D unchanged.
C16_CompareFlags ==
    Compared =>
        /\ (Flag(cpu.status, 1) = 1) <=> (R0 >= M0)
        /\ (Flag(cpu.status, 2) = 1) <=> (R0 = M0)
        /\ Flag(cpu.status, 128) = Bit7((R0 - M0) % 256)
        /\ cpu.register_a = prev.register_a
        /\ cpu.register_x = prev.register_x
        /\ cpu.register_y = prev.register_y
        /\ cpu.stack_pointer = prev.stack_pointer
        /\ cpu.memory = prev.memory
        /\ \A k \in {4, 8, 64} : Flag(cpu.status, k) = Flag(prev.status, k)

\* CMP #$80 with A = 0x80 and the flags C and Z clear, N set: C = 1, Z = 1,
\* N = 0.
C16_Witness ==
    /\ Executed("CMP")
    /\ prev.register_a = 128
    /\ M0 = 128
    /\ prev.status = 36
    /\ cpu.status = 39

----------------------------------------------------------------------------
(* The 16-bit helpers.                                                     *)

\* The address after p, with the wrap of the pointer's advance.
After(p) == (p + 1) % U16

\* C17: mem_read_u16(p) = mem_read(p) | (mem_read((p+1) mod 65536) << 8),
\* and mem_write_u16(p, v) stores v & 0xFF at p and v >> 8 at (p+1) mod
\* 65536: for every p and v, mem_write_u16(p, v) followed by mem_read_u16(p)
\* returns v, and no cell other than those two changes.
C17_WordRoundTrip ==
    /\ last.op = "mem_write_u16" =>
          /\ last.outcome = "ok"
          /\ Cell(cpu.memory, last.addr) = last.data % U8
          /\ Cell(cpu.memory, After(last.addr)) = last.data \div U8
          /\ mem_read_u16(cpu, last.addr) = [fault |-> "none", value |-> last.data]
          /\ \A a \in ((DOMAIN cpu.memory) \cup (DOMAIN prev.memory))
                          \ {last.addr, After(last.addr)} :
                Cell(cpu.memory, a) = Cell(prev.memory, a)
    /\ last.op = "mem_read_u16" =>
          /\ last.outcome = "ok"
          /\ last.value = Cell(prev.memory, last.addr)
                            + U8 * Cell(prev.memory, After(last.addr))
          /\ cpu.memory = prev.memory

----------------------------------------------------------------------------
(* The program counter after an iteration.                                 *)

\* The last iteration executed an instruction to its end and the loop goes
\* on.
Completed == Stepped /\ last.outcome = "next"

\* The instructions that set the program counter themselves.
SetsPC ==
    \/ last.mnemonic \in {"JMP", "JSR", "RTS", "RTI", "BRK"}
    \/ last.mnemonic \in Branches /\ Taken(last.mnemonic, prev.status)

\* The byte length in the table entry of the opcode executed.
TableLen == CPU_OPS_CODES[last.data].len

\* The CPU when the arm of the match is entered: the opcode is fetched.
AfterFetch == [prev EXCEPT !.program_counter = wrapping_add16(@, 1)]

\* C18: for every instruction at address a other than JMP, JSR, RTS, RTI,
\* BRK and taken branches, one iteration of the loop leaves PC = (a +
\* length) mod 65536, length being the byte length of the opcode's table
\* entry; for JMP and JSR the loop adds nothing to the PC the instruction
\* set.
C18_ProgramCounterAdvance ==
    Completed =>
        /\ ~SetsPC => cpu.program_counter = (prev.program_counter + TableLen) % U16
        /\ last.mnemonic = "JMP" =>
              cpu.program_counter = jmp(AfterFetch, last.mode).program_counter
        /\ last.mnemonic = "JSR" =>
              cpu.program_counter = jsr(AfterFetch, last.mode).program_counter

\* A branch not taken at 0xFFFE: the program counter wraps to 0.
C18_Witness ==
    /\ Completed
    /\ last.mnemonic = "BCC"
    /\ prev.program_counter = 65534
    /\ Flag(prev.status, 1) = 1
    /\ cpu.program_counter = 0

----------------------------------------------------------------------------
(* The addressing modes.                                                   *)

\* The byte and the little-endian word that follow the opcode executed.
OperandByte == Cell(prev.memory, wrapping_add16(prev.program_counter, 1))
OperandWord == OperandByte + U8 * Cell(prev.memory, wrapping_add16(prev.program_counter, 2))

\* The address the resolver gives the instruction executed.
EffectiveAddress == get_operand_address(AfterFetch, last.mode)

\* C19: for AbsoluteX and AbsoluteY addressing the effective address is the
\* little-endian 16-bit word at PC and PC+1 plus X, respectively Y, mod
\* 65536, for every operand word (a non-zero high byte included) and every
\* index value.
C19_AbsoluteIndexed ==
    /\ (Completed /\ last.mode = "AbsoluteX") =>
          EffectiveAddress = Resolved((OperandWord + prev.register_x) % U16)
    /\ (Completed /\ last.mode = "AbsoluteY") =>
          EffectiveAddress = Resolved((OperandWord + prev.register_y) % U16)

\* The word whose low byte is at p and whose high byte is at (p+1) mod 256.
PageZeroWord(p) == Cell(prev.memory, p) + U8 * Cell(prev.memory, (p + 1) % U8)

\* C20: for IndirectX the effective address is mem[p] | (mem[(p+1) mod 256]
\* << 8) with p = (mem[PC] + X) mod 256, and for IndirectY it is (mem[p] |
\* (mem[(p+1) mod 256] << 8) + Y) mod 65536 with p = mem[PC]; when p = 0xFF
\* the high byte comes from address 0x0000, never from 0x0100.
C20_IndirectIndexed ==
    /\ (Completed /\ last.mode = "IndirectX") =>
          EffectiveAddress =
              Resolved(PageZeroWord((OperandByte + prev.register_x) % U8))
    /\ (Completed /\ last.mode = "IndirectY") =>
          EffectiveAddress =
              Resolved((PageZeroWord(OperandByte) + prev.register_y) % U16)

\* LDA ($00,X) with X = 0xFF: the pointer is at 0xFF, its high byte is the
\* 0x12 at 0x0000 and not the 0x56 at 0x0100.
C20_Witness ==
    /\ Completed
    /\ last.mnemonic = "LDA"
    /\ last.mode = "IndirectX"
    /\ OperandByte = 0
    /\ prev.register_x = 255
    /\ Cell(prev.memory, 255) = 52
    /\ Cell(prev.memory, 0) = 18
    /\ Cell(prev.memory, 256) = 86
    /\ EffectiveAddress = Resolved(4660)

----------------------------------------------------------------------------
(* The zero-page modes.                                                    *)

\* The last iteration executed an instruction of addressing mode `mode` to
\* its end.
CompletedIn(mode) == Completed /\ last.mode = mode

\* C21: for ZeroPage, ZeroPageX and ZeroPageY addressing the effective
\* address lies in 0x0000..0x00FF: it is mem[PC], (mem[PC] + X) mod 256 and
\* (mem[PC] + Y) mod 256, so an indexed access never leaves the zero page.
C21_ZeroPageStaysInPageZero ==
    /\ CompletedIn("ZeroPage") => EffectiveAddress = Resolved(OperandByte)
    /\ CompletedIn("ZeroPageX") =>
          EffectiveAddress = Resolved((OperandByte + prev.register_x) % U8)
    /\ CompletedIn("ZeroPageY") =>
          EffectiveAddress = Resolved((OperandByte + prev.register_y) % U8)
    /\ (Completed /\ last.mode \in {"ZeroPage", "ZeroPageX", "ZeroPageY"}) =>
          EffectiveAddress.addr \in 0 .. 255

\* STA $10,X with X = 0xFF stored A at 0x000F, not at 0x010F.
C21_Witness ==
    /\ CompletedIn("ZeroPageX")
    /\ last.mnemonic = "STA"
    /\ OperandByte = 16
    /\ prev.register_x = 255
    /\ prev.register_a = 128
    /\ Cell(cpu.memory, 15) = 128
    /\ Cell(cpu.memory, 271) = 0

----------------------------------------------------------------------------
(* JMP.                                                                    *)

\* The last iteration executed (or began to execute) JMP in mode `mode`.
Jumped(mode) == Stepped /\ last.mnemonic = "JMP" /\ last.mode = mode

\* The word at q and (q+1) mod 65536 before the step.
WordAt(q) == Cell(prev.memory, q) + U8 * Cell(prev.memory, (q + 1) % U16)

\* C22: JMP (Indirect) with operand pointer q sets PC to mem[q] | (mem[(q+1)
\* mod 65536] << 8) for every q, q = 0xXXFF included (the high byte comes
\* from the next page); JMP (Absolute) sets PC to the operand word.
C22_JumpTarget ==
    /\ Jumped("Indirect") =>
          /\ last.outcome = "next"
          /\ cpu.program_counter = WordAt(OperandWord)
    /\ Jumped("Absolute") =>
          /\ last.outcome = "next"
          /\ cpu.program_counter = OperandWord

----------------------------------------------------------------------------
(* The resolver's sentinel modes.                                          *)

SentinelModes == {"Implicit", "Accumulator"}

\* C23: for every opcode of the table, executing it never requests an
\* effective address for the Implicit or the Accumulator mode: the
\* resolver's unreachable!() is never hit during run(), and the iteration
\* of an opcode of either mode does not abort.
C23_ResolverNeverUnreachable ==
    /\ cpu.fault # "unreachable"
    /\ (Stepped /\ last.mode \in SentinelModes) => last.outcome # "panic"

\* ASL A, the Accumulator entry 0x0A of the table, was executed to its end.
C23_Witness ==
    /\ Completed
    /\ last.data = 10
    /\ last.mode = "Accumulator"
    /\ prev.register_a = 128
    /\ cpu.register_a = 0
    /\ cpu.fault = "none"

----------------------------------------------------------------------------
(* JSR and RTI.                                                            *)

\* The last iteration executed JSR to its end.
Called == Completed /\ last.mnemonic = "JSR"

\* The address JSR pushes: that of its own last byte.
ReturnPoint == (prev.program_counter + 2) % U16

\* The stack cell at stack pointer sp.
StackCell(sp) == STACK + (sp % U8)

\* C24: JSR at address a with target T stores the high byte of a + 2 at
\* 0x0100+SP, then the low byte of a + 2 at 0x0100+((SP-1) mod 256),
\* decrements SP by 2 (mod 256), sets PC = T, and changes no register, flag
\* or other memory cell.
C24_CallPushesReturnPoint ==
    Called =>
        /\ Cell(cpu.memory, StackCell(prev.stack_pointer)) = ReturnPoint \div U8
        /\ Cell(cpu.memory, StackCell(prev.stack_pointer + 255)) = ReturnPoint % U8
        /\ cpu.stack_pointer = (prev.stack_pointer + 254) % U8
        /\ cpu.program_counter = OperandWord
        /\ cpu.register_a = prev.register_a
        /\ cpu.register_x = prev.register_x
        /\ cpu.register_y = prev.register_y
        /\ cpu.status = prev.status
        /\ \A a \in ((DOMAIN cpu.memory) \cup (DOMAIN prev.memory))
                      \ {StackCell(prev.stack_pointer), StackCell(prev.stack_pointer + 255)} :
              Cell(cpu.memory, a) = Cell(prev.memory, a)

\* JSR $2021 at 0xFFFC with SP = 0: 0xFF goes to 0x0100, 0xFE to 0x01FF and
\* SP becomes 0xFE.
C24_Witness ==
    /\ Called
    /\ prev.program_counter = 65532
    /\ prev.stack_pointer = 0
    /\ Cell(cpu.memory, 256) = 255
    /\ Cell(cpu.memory, 511) = 254
    /\ cpu.stack_pointer = 254
    /\ cpu.program_counter = 8225

\* The last iteration executed RTI to its end.
ReturnedFromInterrupt == Completed /\ last.mnemonic = "RTI"

\* The k-th byte RTI pulls (k = 1, 2, 3), as it was before the step.
PulledByte(k) == Cell(prev.memory, StackCell(prev.stack_pointer + k))

\* C25: RTI pulls three bytes in the order P, PC low, PC high (SP increases
\* by 3 mod 256), sets PC to exactly the 16-bit value pulled (no +1, and
\* the loop adds nothing), and loads P from the pulled byte without
\* restoring B: bit 4 of P after RTI equals bit 4 of P before RTI.
C25_ReturnFromInterrupt ==
    ReturnedFromInterrupt =>
        /\ cpu.stack_pointer = (prev.stack_pointer + 3) % U8
        /\ cpu.program_counter = PulledByte(2) + U8 * PulledByte(3)
        /\ \A k \in {1, 2, 4, 8, 32, 64, 128} :
              Flag(cpu.status, k) = Flag(PulledByte(1), k)
        /\ Flag(cpu.status, 16) = Flag(prev.status, 16)

----------------------------------------------------------------------------
(* The stack discipline.                                                   *)

Pushes == {"PHA", "PHP", "JSR"}
Pulls == {"PLA", "PLP", "RTS", "RTI"}

\* The cells whose content the last iteration changed.
Changed ==
    {a \in (DOMAIN cpu.memory) \cup (DOMAIN prev.memory) :
        Cell(cpu.memory, a) # Cell(prev.memory, a)}

StackPage == STACK .. (STACK + 255)

\* C26: every push (PHA, PHP, JSR) writes at 0x0100+SP and then decrements
\* SP mod 256, and every pull (PLA, PLP, RTS, RTI) increments SP mod 256 and
\* then reads at 0x0100+SP; for every SP, the wraps 0x00 -> 0xFF and 0xFF ->
\* 0x00 included, all stack accesses fall inside 0x0100..0x01FF.
C26_StackDiscipline ==
    /\ (Completed /\ last.mnemonic = "PHA") =>
          /\ Cell(cpu.memory, StackCell(prev.stack_pointer)) = prev.register_a
          /\ cpu.stack_pointer = (prev.stack_pointer + 255) % U8
          /\ Changed \subseteq {StackCell(prev.stack_pointer)}
    /\ (Completed /\ last.mnemonic = "PHP") =>
          /\ Cell(cpu.memory, StackCell(prev.stack_pointer)) = prev.status
          /\ cpu.stack_pointer = (prev.stack_pointer + 255) % U8
          /\ Changed \subseteq {StackCell(prev.stack_pointer)}
    /\ (Completed /\ last.mnemonic = "JSR") =>
          /\ Cell(cpu.memory, StackCell(prev.stack_pointer)) = ReturnPoint \div U8
          /\ Cell(cpu.memory, StackCell(prev.stack_pointer + 255)) = ReturnPoint % U8
          /\ cpu.stack_pointer = (prev.stack_pointer + 254) % U8
          /\ Changed \subseteq {StackCell(prev.stack_pointer),
                                StackCell(prev.stack_pointer + 255)}
    /\ (Completed /\ last.mnemonic = "PLA") =>
          /\ cpu.stack_pointer = (prev.stack_pointer + 1) % U8
          /\ cpu.register_a = PulledByte(1)
    /\ (Completed /\ last.mnemonic = "PLP") =>
          /\ cpu.stack_pointer = (prev.stack_pointer + 1) % U8
          /\ cpu.status = PulledByte(1)
    /\ (Completed /\ last.mnemonic = "RTS") =>
          /\ cpu.stack_pointer = (prev.stack_pointer + 2) % U8
          /\ cpu.program_counter = (PulledByte(1) + U8 * PulledByte(2) + 1) % U16
    /\ (Completed /\ last.mnemonic = "RTI") =>
          /\ cpu.stack_pointer = (prev.stack_pointer + 3) % U8
          /\ \A k \in {1, 2, 4, 8, 32, 64, 128} :
                Flag(cpu.status, k) = Flag(PulledByte(1), k)
          /\ cpu.program_counter = PulledByte(2) + U8 * PulledByte(3)
    /\ (Completed /\ last.mnemonic \in Pushes) => Changed \subseteq StackPage
    /\ (Completed /\ last.mnemonic \in Pulls) => Changed = {}
    /\ (Stepped /\ last.mnemonic \in (Pushes \cup Pulls) \ {"JSR"}) =>
          last.outcome = "next"

\* PHA with SP = 0x00: A is stored at 0x0100 and SP wraps to 0xFF.
C26_Witness ==
    /\ Completed
    /\ last.mnemonic = "PHA"
    /\ prev.stack_pointer = 0
    /\ prev.register_a = 128
    /\ Cell(prev.memory, 256) = 86
    /\ Cell(cpu.memory, 256) = 128
    /\ cpu.stack_pointer = 255

----------------------------------------------------------------------------
(* The conditions of the branches.                                         *)

\* The address after the branch and its operand.
FallThrough == (prev.program_counter + 2) % U16

\* C27: each of the eight branch mnemonics is taken exactly when its named
\* condition holds on the status byte at the time of the branch (BCC: C=0,
\* BCS: C=1, BNE: Z=0, BEQ: Z=1, BPL: N=0, BMI: N=1, BVC: V=0, BVS: V=1),
\* and a branch, taken or not, changes nothing but PC.
C27_BranchCondition ==
    Branched =>
        /\ M0 # 0 =>
              ((cpu.program_counter # FallThrough) <=> Taken(last.mnemonic, prev.status))
        /\ ~Taken(last.mnemonic, prev.status) => cpu.program_counter = FallThrough
        /\ Registers(cpu) = Registers(prev)
        /\ cpu.memory = prev.memory

\* BVS with V alone set in the status: taken, with every register as before.
C27_Witness ==
    /\ Branched
    /\ last.mnemonic = "BVS"
    /\ prev.status = 64
    /\ prev.program_counter = 32768
    /\ M0 = 16
    /\ cpu.program_counter = 32786
    /\ cpu.status = 64

----------------------------------------------------------------------------
(* Shifts and rotates: two of ASL, LSR, ROL, ROR in a row, both on the     *)
(* accumulator or both on the zero-page cell 0x10, for every old value.    *)

\* ASL, LSR, ROL, ROR on the accumulator and on $10.
ShiftForms ==
    { <<10>>, <<74>>, <<42>>, <<106>>,
      <<6, 16>>, <<70, 16>>, <<38, 16>>, <<102, 16>> }

\* The carry clear and set, with the other flags clear and set.
ShiftStatuses == {36, 37, 218, 219}

\* The operand holds `old`; the other of A and the cell holds a byte that
\* the instructions must leave alone.
ShiftEntered(program, old, p) ==
    IF Len(program) = 2
    THEN Entered(Machine(Regs(old, 2, 3, 253, p), LOAD_BASE,
                         PlaceAll(Place(ZeroMemory, 16, 165), LOAD_BASE, program)), 2)
    ELSE Entered(Machine(Regs(90, 2, 3, 253, p), LOAD_BASE,
                         PlaceAll(Place(ZeroMemory, 16, old), LOAD_BASE, program)), 2)

ShiftInit ==
    \E first \in ShiftForms, second \in ShiftForms, old \in Byte, p \in ShiftStatuses :
        /\ Len(first) = Len(second)
        /\ ShiftEntered(first \o second, old, p)

ShiftSpec == ShiftInit /\ [][Step]_vars

\* The last iteration executed mnemonic m on the accumulator or on a
\* zero-page cell.
Shifted(m) ==
    /\ Completed
    /\ last.mnemonic = m
    /\ last.mode \in {"Accumulator", "ZeroPage"}

\* The operand before and after the step.
Old == IF last.mode = "Accumulator" THEN prev.register_a
       ELSE Cell(prev.memory, OperandByte)
New == IF last.mode = "Accumulator" THEN cpu.register_a
       ELSE Cell(cpu.memory, OperandByte)

\* Z and N come from the new value; the accumulator form changes no memory
\* cell, the memory form changes only the addressed cell and not A.
ShiftFrame ==
    /\ (Flag(cpu.status, 2) = 1) <=> (New = 0)
    /\ Flag(cpu.status, 128) = Bit7(New)
    /\ last.mode = "Accumulator" => cpu.memory = prev.memory
    /\ last.mode = "ZeroPage" =>
          /\ Changed \subseteq {OperandByte}
          /\ cpu.register_a = prev.register_a

\* C28: for every old value and both operand forms (A or a memory cell):
\* ASL stores (old << 1) mod 256 and sets C to bit 7 of old; LSR stores old
\* >> 1, sets C to bit 0 of old and always leaves N = 0; both set Z iff the
\* new value is 0 and N to bit 7 of the new value.  The accumulator form
\* changes no memory cell and the memory form changes only the addressed
\* cell and not A.
C28_Shifts ==
    /\ Shifted("ASL") =>
          /\ New = (Old * 2) % U8
          /\ Flag(cpu.status, 1) = Bit7(Old)
          /\ ShiftFrame
    /\ Shifted("LSR") =>
          /\ New = Old \div 2
          /\ Flag(cpu.status, 1) = Old % 2
          /\ Flag(cpu.status, 128) = 0
          /\ ShiftFrame

\* LSR A with A = 0x80 while N is set and C clear: A = 0x40, N and C clear.
C28_Witness ==
    /\ Shifted("LSR")
    /\ last.mode = "Accumulator"
    /\ prev.register_a = 128
    /\ prev.status = 218
    /\ cpu.register_a = 64
    /\ Flag(cpu.status, 128) = 0
    /\ Flag(cpu.status, 1) = 0
    /\ Cell(cpu.memory, 16) = 165


\* The table entry of the instruction executed before the last one, and the
\* byte that followed its opcode.
PriorEntry == CPU_OPS_CODES[Cell(prior.cpu.memory, prior.cpu.program_counter)]
PriorOperandByte ==
    Cell(prior.cpu.memory, wrapping_add16(prior.cpu.program_counter, 1))

\* The last two iterations executed `first` and `second` on the same
\* operand: both on the accumulator or both on the same zero-page cell.
ShiftedPair(first, second) ==
    /\ ExecutedPair(first, second)
    /\ Shifted(second)
    /\ PriorEntry.mode = last.mode
    /\ last.mode = "ZeroPage" => PriorOperandByte = OperandByte

\* The operand and the carry before the first instruction of the pair.
Original == IF last.mode = "Accumulator" THEN prior.cpu.register_a
            ELSE Cell(prior.cpu.memory, OperandByte)
OriginalCarry == Flag(prior.cpu.status, 1)

\* C29: for every old value and carry-in C: ROL stores ((old << 1) | C) mod
\* 256 and sets C to bit 7 of old; ROR stores (old >> 1) | (C << 7) and sets
\* C to bit 0 of old; the new value is built from the carry as it was before
\* the instruction, Z and N come from the new value, and ROL followed by ROR
\* on the same operand restores both the operand and C.
C29_Rotates ==
    /\ Shifted("ROL") =>
          /\ New = (Old * 2 + Cin) % U8
          /\ Flag(cpu.status, 1) = Bit7(Old)
          /\ (Flag(cpu.status, 2) = 1) <=> (New = 0)
          /\ Flag(cpu.status, 128) = Bit7(New)
    /\ Shifted("ROR") =>
          /\ New = (Old \div 2) + 128 * Cin
          /\ Flag(cpu.status, 1) = Old % 2
          /\ (Flag(cpu.status, 2) = 1) <=> (New = 0)
          /\ Flag(cpu.status, 128) = Bit7(New)
    /\ ShiftedPair("ROL", "ROR") =>
          /\ New = Original
          /\ Flag(cpu.status, 1) = OriginalCarry

\* ROL $10; ROR $10 on 0x80 with the carry set: the cell held 0x01 with the
\* carry set in between and holds 0x80 again, the carry set again.
C29_Witness ==
    /\ ShiftedPair("ROL", "ROR")
    /\ last.mode = "ZeroPage"
    /\ Original = 128
    /\ OriginalCarry = 1
    /\ Old = 1
    /\ Cin = 1
    /\ New = 128
    /\ Flag(cpu.status, 1) = 1

----------------------------------------------------------------------------
(* BIT, on a zero-page cell and on an absolute address, for every operand. *)

\* BIT $10 and BIT $0210.
BitForms == { <<36, 16>>, <<44, 16, 2>> }
BitAccumulators ==
    {0, 1, 15, 63, 64, 85, 127, 128, 129, 170, 191, 192, 240, 254, 255}
BitStatuses == {36, 219}

\* The address the form names.
BitTarget(form) == IF Len(form) = 2 THEN 16 ELSE 528

BitInit ==
    \E form \in BitForms, a \in BitAccumulators, m \in Byte, p \in BitStatuses :
        Entered(Machine(Regs(a, 2, 3, 253, p), LOAD_BASE,
                        PlaceAll(Place(ZeroMemory, BitTarget(form), m),
                                 LOAD_BASE, form)), 1)

BitSpec == BitInit /\ [][Step]_vars

\* The last iteration executed BIT to its end.
BitTested == Completed /\ last.mnemonic = "BIT"

\* The operand of the instruction executed, before the step.
Operand == Cell(prev.memory, EffectiveAddress.addr)

\* Bytes a and m have no bit in common.
Disjoint(a, m) ==
    \A k \in {1, 2, 4, 8, 16, 32, 64, 128} : Flag(a, k) = 0 \/ Flag(m, k) = 0

\* C30: BIT with accumulator A and operand M sets Z iff (A AND M) = 0, V to
\* bit 6 of M and N to bit 7 of M, and leaves A, X, Y, SP, C, I, D and
\* memory unchanged.
C30_BitTest ==
    BitTested =>
        /\ (Flag(cpu.status, 2) = 1) <=> Disjoint(prev.register_a, Operand)
        /\ Flag(cpu.status, 64) = Flag(Operand, 64)
        /\ Flag(cpu.status, 128) = Bit7(Operand)
        /\ cpu.register_a = prev.register_a
        /\ cpu.register_x = prev.register_x
        /\ cpu.register_y = prev.register_y
        /\ cpu.stack_pointer = prev.stack_pointer
        /\ \A k \in {1, 4, 8} : Flag(cpu.status, k) = Flag(prev.status, k)
        /\ cpu.memory = prev.memory

\* BIT $0210 with A = 0x3F and M = 0xC0 from status 0x24: Z, V and N are
\* set, although A AND M is 0.
C30_Witness ==
    /\ BitTested
    /\ last.mode = "Absolute"
    /\ prev.register_a = 63
    /\ Operand = 192
    /\ prev.status = 36
    /\ cpu.status = 230

----------------------------------------------------------------------------
(* Increments and decrements, for every value of the cell or register.     *)

\* INC $10, DEC $10, INX, INY, DEX, DEY.
CountForms == { <<230, 16>>, <<198, 16>>, <<232>>, <<200>>, <<202>>, <<136>> }
CountStatuses == {36, 101, 219}

\* X, Y and the cell 0x10 all hold v.
CountInit ==
    \E form \in CountForms, v \in Byte, p \in CountStatuses :
        Entered(Machine(Regs(90, v, v, 253, p), LOAD_BASE,
                        PlaceAll(Place(ZeroMemory, 16, v), LOAD_BASE, form)), 1)

CountSpec == CountInit /\ [][Step]_vars

\* The last iteration executed mnemonic m to its end.
Did(m) == Completed /\ last.mnemonic = m

\* Z and N follow v, and C and V are as before the step.
CountFlags(v) ==
    /\ (Flag(cpu.status, 2) = 1) <=> (v = 0)
    /\ Flag(cpu.status, 128) = Bit7(v)
    /\ Flag(cpu.status, 1) = Flag(prev.status, 1)
    /\ Flag(cpu.status, 64) = Flag(prev.status, 64)

\* C31: INC/DEC change the addressed memory cell, and INX/INY/DEX/DEY change
\* X or Y, by exactly +1 or -1 modulo 256 (0xFF + 1 = 0x00, 0x00 - 1 =
\* 0xFF), set Z and N from the result, and leave C and V unchanged.
C31_IncrementDecrement ==
    /\ Did("INC") =>
          /\ Cell(cpu.memory, EffectiveAddress.addr) = (Operand + 1) % U8
          /\ CountFlags((Operand + 1) % U8)
    /\ Did("DEC") =>
          /\ Cell(cpu.memory, EffectiveAddress.addr) = (Operand + 255) % U8
          /\ CountFlags((Operand + 255) % U8)
    /\ Did("INX") =>
          /\ cpu.register_x = (prev.register_x + 1) % U8
          /\ CountFlags(cpu.register_x)
    /\ Did("INY") =>
          /\ cpu.register_y = (prev.register_y + 1) % U8
          /\ CountFlags(cpu.register_y)
    /\ Did("DEX") =>
          /\ cpu.register_x = (prev.register_x + 255) % U8
          /\ CountFlags(cpu.register_x)
    /\ Did("DEY") =>
          /\ cpu.register_y = (prev.register_y + 255) % U8
          /\ CountFlags(cpu.register_y)

\* INC $10 on 0xFF with C and V set and Z clear: the cell holds 0x00, Z is
\* set, C and V are still set.
C31_Witness ==
    /\ Did("INC")
    /\ Operand = 255
    /\ prev.status = 101
    /\ Cell(cpu.memory, 16) = 0
    /\ cpu.status = 103

----------------------------------------------------------------------------
(* Stores and TXS.                                                         *)

\* The iteration stored byte data: the effective address holds it, and no
\* register, no status bit and no other cell changed.
StoredOnly(data) ==
    /\ Cell(cpu.memory, EffectiveAddress.addr) = data
    /\ Registers(cpu) = Registers(prev)
    /\ Changed \subseteq {EffectiveAddress.addr}

\* C32: STA, STX and STY write A, X, respectively Y to the effective address
\* and change no status bit, no register and no other memory cell; TXS
\* copies X to SP and changes no status bit.
C32_Stores ==
    /\ Did("STA") => StoredOnly(prev.register_a)
    /\ Did("STX") => StoredOnly(prev.register_x)
    /\ Did("STY") => StoredOnly(prev.register_y)
    /\ Did("TXS") =>
          /\ cpu.stack_pointer = prev.register_x
          /\ cpu.status = prev.status

\* STA of 0x00 over a cell that held another byte, with Z clear before and
\* after.
C32_Witness ==
    /\ Did("STA")
    /\ prev.register_a = 0
    /\ Operand # 0
    /\ Changed = {EffectiveAddress.addr}
    /\ Flag(prev.status, 2) = 0
    /\ cpu.status = prev.status

----------------------------------------------------------------------------
(* The flag instructions and the status query, for every status byte.      *)

\* The bit of the status byte a variant of ProcessorStatus names.
FlagBit(flag) ==
    CASE flag = "Carry" -> 1
      [] flag = "Zero" -> 2
      [] flag = "InterruptDisable" -> 4
      [] flag = "Decimal" -> 8
      [] flag = "BFlag" -> 16
      [] flag = "Unused" -> 32
      [] flag = "Overflow" -> 64
      [] flag = "Negative" -> 128

\* The host calls is_status_flag_set(flag) once run() has returned.
HostIsStatusFlagSet ==
    /\ HostCall
    /\ \E flag \in ProcessorStatus :
        \E r \in {is_status_flag_set_call(cpu, flag)} :
            /\ cpu' = IF r.fault = "none" THEN cpu ELSE Panic(cpu, r.fault)
            /\ last' = Last("is_status_flag_set", FlagBit(flag), 0,
                            IF r.value THEN 1 ELSE 0, OutcomeOf(cpu'))
    /\ phase' = PhaseAfter(cpu')

\* CLC, CLD, CLI, CLV, SEC, SED, SEI.
FlagOpcodes == {24, 216, 88, 184, 56, 248, 120}

\* A flag instruction followed by BRK, from every status byte; the host
\* queries a flag after run() has returned.
FlagInit ==
    \E opcode \in FlagOpcodes, p \in Byte :
        /\ cpu = Machine(Regs(90, 165, 60, 253, p), LOAD_BASE,
                         PlaceAll(Background, LOAD_BASE, <<opcode, 0>>))
        /\ phase = "run"
        /\ prev = cpu
        /\ last = Last("run", LOAD_BASE, 0, 0, "ok")
        /\ fuel = [host |-> 1, steps |-> 2]
        /\ frame = NoFrame
        /\ bus = Bus_new
        /\ prior = NoPrior(cpu)

FlagNext == Step \/ HostIsStatusFlagSet

FlagSpec == FlagInit /\ [][FlagNext]_vars

\* The iteration left bit k of P with value b and changed nothing else but
\* the program counter.
OnlyBit(k, b) ==
    /\ Flag(cpu.status, k) = b
    /\ \A j \in {1, 2, 4, 8, 16, 32, 64, 128} \ {k} :
          Flag(cpu.status, j) = Flag(prev.status, j)
    /\ cpu.register_a = prev.register_a
    /\ cpu.register_x = prev.register_x
    /\ cpu.register_y = prev.register_y
    /\ cpu.stack_pointer = prev.stack_pointer
    /\ cpu.memory = prev.memory

\* The flag instructions do what they name.
FlagInstructions ==
    /\ Did("CLC") => OnlyBit(1, 0)
    /\ Did("CLI") => OnlyBit(4, 0)
    /\ Did("CLD") => OnlyBit(8, 0)
    /\ Did("CLV") => OnlyBit(64, 0)
    /\ Did("SEC") => OnlyBit(1, 1)
    /\ Did("SEI") => OnlyBit(4, 1)
    /\ Did("SED") => OnlyBit(8, 1)

\* The last operation was a call of is_status_flag_set.
Queried == last.op = "is_status_flag_set"

\* The query returned, with true iff the bit it names is 1 in P.
FlagQueries ==
    Queried =>
        /\ last.outcome = "ok"
        /\ (last.value = 1) <=> (Flag(prev.status, last.addr) = 1)

\* C33: CLC, CLD, CLI, CLV clear and SEC, SED, SEI set exactly the one
\* status bit they name (C = bit 0, I = bit 2, D = bit 3, V = bit 6) and
\* leave the other seven bits of P, all registers and memory unchanged;
\* is_status_flag_set(f) returns true iff the bit of f is 1 in P.
C33_FlagInstructionsAndQuery == FlagInstructions /\ FlagQueries

\* The query returned for the six flags it has an arm for.
FlagQueriesWithArm ==
    (Queried /\ last.addr \notin {16, 32}) =>
        /\ last.outcome = "ok"
        /\ (last.value = 1) <=> (Flag(prev.status, last.addr) = 1)

\* A query of BFlag or Unused, which aborts.
FlagQueryAborted ==
    Queried /\ last.addr \in {16, 32} /\ last.outcome = "panic"

----------------------------------------------------------------------------
(* ADC and SBC with the decimal flag clear and set.                        *)

\* ADC #m and SBC #m.
DecimalOpcodes == {105, 233}

\* Operands whose decimal sum differs from the binary one for some
\* accumulator, and the ends of the range.
DecimalOperands ==
    {0, 1, 6, 9, 10, 15, 16, 25, 85, 96, 102, 127, 128, 153, 160, 255}

\* C and D clear and set.
DecimalStatuses == {36, 37, 44, 45}

DecimalInit ==
    \E opcode \in DecimalOpcodes, a \in Byte, m \in DecimalOperands,
       p \in DecimalStatuses :
        Entered(Machine(Regs(a, 17, 34, 253, p), LOAD_BASE,
                        PlaceAll(ZeroMemory, LOAD_BASE, <<opcode, m>>)), 1)

DecimalSpec == DecimalInit /\ [][Step]_vars

\* What the claim compares: A, C, V, Z and N.
Arithmetic(c) ==
    <<c.register_a, Flag(c.status, 1), Flag(c.status, 64), Flag(c.status, 2),
      Flag(c.status, 128)>>

\* The state before the step with bit 3 of P flipped.
Twin == [prev EXCEPT !.status = BitXor(@, DECIMAL_BIT)]

\* C34: the Decimal flag is inert for arithmetic: for every A, M and
\* carry-in, two runs of ADC (or SBC) that start from states differing only
\* in bit 3 of P produce the same A, C, V, Z and N, and the D bit itself is
\* left unchanged by ADC and SBC.
C34_DecimalInert ==
    (Executed("ADC") \/ Executed("SBC")) =>
        \A other \in {run_iteration(Twin)} :
            /\ other.outcome = "next"
            /\ Arithmetic(other.cpu) = Arithmetic(cpu)
            /\ Flag(cpu.status, 8) = Flag(prev.status, 8)
            /\ Flag(other.cpu.status, 8) = Flag(Twin.status, 8)
            /\ Flag(Twin.status, 8) # Flag(prev.status, 8)

\* 0x09 + 0x01 with D set: A = 0x0A as with D clear (0x10 in decimal mode),
\* and D is still set.
C34_Witness ==
    /\ Executed("ADC")
    /\ A0 = 9
    /\ M0 = 1
    /\ prev.status = 44
    /\ cpu.register_a = 10
    /\ Flag(cpu.status, 8) = 1
    /\ run_iteration(Twin).cpu.register_a = 10

----------------------------------------------------------------------------
(* The report of an illegal opcode.                                        *)

\* The iteration fetched a byte that is not an opcode of the table.
IllegalFetched == Fetched /\ FetchedByte \notin TableOpcodes

\* C35: on an illegal opcode the abort reports the offending opcode byte
\* together with the address at which that byte was reached (the address it
\* was fetched from).
C35_IllegalOpcodeReport ==
    IllegalFetched =>
        /\ last.outcome = "panic"
        /\ last.message.opcode = FetchedByte
        /\ last.message.address = prev.program_counter

\* The report names the byte fetched.
IllegalOpcodeReportByte ==
    IllegalFetched => last.message.opcode = FetchedByte

\* The address reported is the one after the byte's.
IllegalOpcodeReportAddress ==
    IllegalFetched =>
        last.message.address = wrapping_add16(prev.program_counter, 1)

----------------------------------------------------------------------------
(* The Bus memory port: mem_read and mem_write on a Bus the host made.     *)

\* The ends of the RAM, of its three mirrors, of the PPU range and of the
\* address space, and addresses inside them.
BusAddrs ==
    {0, 1, 2047, 2048, 2049, 4095, 4096, 4097, 6143, 6144, 6145, 8191,
     8192, 8193, 16383, 16384, 16416, 32768, 65535}
BusBytes == {0, 96, 255}

BusCall ==
    /\ phase = "host"
    /\ fuel.host > 0
    /\ prev' = cpu
    /\ fuel' = [fuel EXCEPT !.host = @ - 1]
    /\ prior' = Earlier
    /\ UNCHANGED <<cpu, frame>>

BusPhaseAfter(b) == IF b.fault = "none" THEN "host" ELSE "aborted"
BusOutcomeOf(b) == IF b.fault = "none" THEN "ok" ELSE "panic"

HostBusMemWrite ==
    /\ BusCall
    /\ \E addr \in BusAddrs, data \in BusBytes :
        /\ bus' = Bus_mem_write(bus, addr, data)
        /\ last' = Last("Bus::mem_write", addr, data, 0, BusOutcomeOf(bus'))
    /\ phase' = BusPhaseAfter(bus')

HostBusMemRead ==
    /\ BusCall
    /\ \E addr \in BusAddrs :
        \E r \in {Bus_mem_read(bus, addr)} :
            /\ bus' = IF r.fault = "none" THEN bus ELSE [bus EXCEPT !.fault = r.fault]
            /\ last' = Last("Bus::mem_read", addr, 0, r.value, BusOutcomeOf(bus'))
    /\ phase' = BusPhaseAfter(bus')

BusNext == HostBusMemWrite \/ HostBusMemRead

BusSpec == Init /\ [][BusNext]_vars

MirroredRam == RAM .. RAM_MIRRORS_END

\* Addresses a and b of the mirrored range name the same RAM cell.
SameFold(a, b) == (a % 2048) = (b % 2048)

\* After a write of data at a: a read at b returns data when b folds as a,
\* and what it returned before the write otherwise.
Mirrored(a, data) ==
    \A b \in BusAddrs \cap MirroredRam :
        Bus_mem_read(bus', b) =
            IF SameFold(a, b) THEN [fault |-> "none", value |-> data]
            ELSE Bus_mem_read(bus, b)

\* C36: through the Bus memory port, every address in 0x0000..=0x1FFF folds
\* to addr & 0x07FF: a mem_write at address a in that range is returned by
\* mem_read at every address b in the range with (b & 0x07FF) = (a &
\* 0x07FF), and by no other address.
C36_MirroredRam ==
    [][(last'.op = "Bus::mem_write" /\ last'.addr \in MirroredRam) =>
          /\ last'.outcome = "ok"
          /\ Mirrored(last'.addr, last'.data)
          /\ bus'.cpu_vram = Store(bus.cpu_vram, last'.addr % 2048, last'.data)]_vars

\* 0xFF was written at 0x0001 or one of its mirrors and then read at
\* 0x1801; the RAM holds it in cell 1 only.
C36_Witness ==
    /\ last.op = "Bus::mem_read"
    /\ last.addr = 6145
    /\ last.value = 255
    /\ last.outcome = "ok"
    /\ bus.cpu_vram = (1 :> 255)
    /\ Bus_mem_read(bus, 2049).value = 255
    /\ Bus_mem_read(bus, 6144).value = 0

\* C37: through the Bus memory port, for every address outside the mirrored
\* RAM range 0x0000..=0x1FFF (that is 0x2000..=0xFFFF), mem_read returns 0
\* and mem_write is ignored, in both cases without aborting and without
\* changing the RAM contents.
C37_OutsideRam ==
    [][(last'.op \in {"Bus::mem_read", "Bus::mem_write"}
            /\ last'.addr \notin MirroredRam) =>
          /\ last'.outcome = "ok"
          /\ last'.value = 0
          /\ bus' = bus]_vars

\* The same beyond the PPU range, 0x4000..=0xFFFF.
OutsideRamAndPpu ==
    [][(last'.op \in {"Bus::mem_read", "Bus::mem_write"}
            /\ last'.addr > PPU_REGISTERS_MIRRORS_END) =>
          /\ last'.outcome = "ok"
          /\ last'.value = 0
          /\ bus' = bus]_vars

\* An access in 0x2000..=0x3FFF, which aborts.
PpuAccessAborted ==
    /\ last.op \in {"Bus::mem_read", "Bus::mem_write"}
    /\ last.addr \in PPU_REGISTERS .. PPU_REGISTERS_MIRRORS_END
    /\ last.outcome = "panic"
    /\ phase = "aborted"

----------------------------------------------------------------------------
(* run() and test_run().                                                   *)

RunAndTestRunAbort ==
    /\ Traced
    /\ last.outcome = "panic"
    /\ cpu.fault = "illegal"
    /\ run_iteration(prev).cpu = cpu

----------------------------------------------------------------------------
(* Bits 4 and 5 of the status byte.                                        *)

\* Bits 4 (B) and 5 of status byte p.
BreakBits(p) == <<Flag(p, 16), Flag(p, 32)>>

\* The last operation was an iteration of either loop.
Iterated == last.op \in {"step", "trace"}

\* C39: bits 4 (B) and 5 (reserved) of P are changed by no instruction other
\* than PLP and RTI: every other instruction, over any sequence of steps,
\* leaves those two bits as they were.
C39_BreakBitsKept ==
    (Iterated /\ last.mnemonic \notin {"PLP", "RTI"}) =>
        BreakBits(cpu.status) = BreakBits(prev.status)

\* PHP with bits 4 and 5 clear: it completes and they are still clear.
C39_Witness ==
    /\ Did("PHP")
    /\ BreakBits(prev.status) = <<0, 0>>
    /\ BreakBits(cpu.status) = <<0, 0>>

\* A PLP that changed both bits.
BreakBitsPulled ==
    /\ Did("PLP")
    /\ Flag(cpu.status, 16) # Flag(prev.status, 16)
    /\ Flag(cpu.status, 32) # Flag(prev.status, 32)

====
